---- MODULE Spec2Model ----
(***************************************************************************)
(* IntentLayer Python SDK: DID registration with the Gateway.              *)
(*                                                                         *)
(*   GatewayClient.register_did      intentlayer_sdk/gateway/client.py     *)
(*   IdentityManager.ensure_registered                                     *)
(*                                   intentlayer_sdk/identity/registration.py *)
(*                                                                         *)
(* Spec:   threads of one or two processes call ensure_registered on the   *)
(*         IdentityManager of their process, all for one DID; a            *)
(*         register_did call is one step, its possible ends computed from  *)
(*         the retry loop.                                                 *)
(* SpecRD: one caller runs register_did, one RegisterDid request per step. *)
(***************************************************************************)
EXTENDS Integers, Sequences, FiniteSets, TLC

\* ------------------------------------------------------------------ bounds
NumThreads == 2
MaxRetriesBound == 2
WaitStep == 5
\* the clock of rate_limited_log advances by TimeStep seconds, up to MaxTime
TimeStep == 900
MaxTime == 5400
\* the clock of the min_stake_wei reads advances by StakeStep seconds, up to
\* MaxStakeTime; the contract is called at most MaxStakeCalls times
StakeStep == 300
MaxStakeTime == 1800
MaxStakeCalls == 3
\* the key store holds at most MaxIdentities identities
MaxIdentities == 3

\* ------------------------------------------------------- program constants
DEFAULT_MAX_RETRIES == 3
\* backoff_base = 0.5 s, in milliseconds
DEFAULT_BACKOFF_BASE == 500
\* random.uniform(0, 0.1), in percent of the delay
MAX_JITTER == 10
LOCK_TIMEOUT == 10
\* TTLCache(maxsize=100, ttl=3600)
TTL_MAXSIZE == 100
TTL == 3600
\* rate_limited_log(..., interval=60)
DEFAULT_INTERVAL == 60
\* the fallback's cleanup: timedelta(seconds=3600)
EXPIRED_CUTOFF == 3600
\* IntentClient(..., retry_count=3, ...)
DEFAULT_RETRY_COUNT == 3
\* pin_to_ipfs: max_retries = 3
PIN_MAX_RETRIES == 3

Threads == 1..NumThreads
Procs == {1, 2}

VARIABLES
    pc,              \* position of each thread
    force,           \* ensure_registered(force=...), until the second check
    lock,            \* local variable lock: "unset", "None" or "lock"
    acquired,        \* local variable acquired
    waited,          \* seconds spent so far inside lock.acquire(timeout=10)
    warned,          \* the call logged a lock warning
    retry_count,     \* register_did local
    max_retries,     \* register_did parameter
    attempts,        \* RegisterDid requests sent by the current register_did
    last_error,      \* register_did local
    rd,              \* how the last register_did call of the thread ended
    result,          \* how the last ensure_registered call of the thread ended
    is_registered,   \* IdentityManager._is_registered, one manager per process
    lockHolders,     \* threads between a successful acquire and the release
    gwRegistered,    \* the Gateway holds the DID
    GRPC_AVAILABLE,  \* module flag of gateway/client.py
    crossProcess,    \* the last thread runs in a second process
    issued,          \* register_did calls issued by ensure_registered(force=False), up to 2
    overlap,         \* the running calls started together on one manager with the flag false
    lastResp,        \* answer to the last request of the register_did call
    onlyUnavail,     \* every answer of that call was gRPC UNAVAILABLE
    backoff_base,    \* register_did parameter, in milliseconds
    sleeps,          \* the time.sleep durations of the register_did call, in order
    si_pc,           \* send_intent: the step the call is at
    si_in,           \* send_intent: the client's configuration and the arguments
    si_trace,        \* send_intent: the steps of the call that took effect, in order
    si_result,       \* send_intent: how the last call ended
    si_warned,       \* send_intent: the call logged a registration failure
    si_reg,          \* send_intent: how the call's ensure_registered ended
    TTLCACHE_AVAILABLE,    \* _rate_limited_log.py: cachetools is installed
    error_log_cache,       \* the TTLCache: entries in insertion order
    error_log_timestamps,  \* the fallback dict: key -> time of the last log
    log_now,               \* the clock, in seconds
    log_emitted,           \* per (level, message): time of its last emission
    log_call,              \* the last rate_limited_log call and what it did
    lt_pc,                 \* per thread: where its rate_limited_log call is
    lt_call,               \* per thread: the arguments of its call
    lt_emitted,            \* per thread: its call reached log_method(message)
    log_lock,              \* the thread inside `with ..._lock`, 0 when free
    pin_pc,                \* pin_to_ipfs: where the call is
    pin_cfg,               \* IntentClient(retry_count=...): retries of the session
    pin_retry_count,       \* pin_to_ipfs: retry_count
    pin_left,              \* retries the session's adapter has left in this post
    pin_posts,             \* session.post calls of the pin_to_ipfs call
    pin_wire,              \* POST requests the pinner received in the call
    pin_resp,              \* what the last session.post gave pin_to_ipfs
    pin_seen,              \* the answers the pinner gave in the call
    pin_raised,            \* a session.post of the call raised
    pin_result,            \* how the last pin_to_ipfs call ended
    stake_built,           \* the IntentClient of the min_stake_wei reads exists
    min_stake_override,    \* the min_stake_wei given at construction, or NoValue
    min_stake_wei,         \* the cached value, or NoValue
    min_stake_wei_timestamp,  \* when the cache was filled, in seconds
    stake_now,             \* the clock of the min_stake_wei reads, in seconds
    stake_chain,           \* what MIN_STAKE_WEI().call() returns now
    stake_calls,           \* contract calls made since construction
    stake_read,            \* the last read of min_stake_wei and what it did
    ks_pc,                 \* per thread: where its KeyStore call is
    ks_built,              \* per thread: it has constructed its KeyStore
    ks_lock,               \* the thread holding the lock on <path>.lock, or 0
    ks_exists,             \* the store file exists
    ks_failed,             \* per thread: its last call raised on the lock timeout
    gd_identities,         \* store.list_identities(): the entries, in dict order
    gd_result,             \* how the last get_or_create_did call ended
    tx_receipt,            \* a transport TxReceipt
    tx_valid,               \* what TxReceipt.validate said about it
    jwt_in,                \* verify_jwt_token: the token and the arguments
    jwt_out,                \* verify_jwt_token: the result and the jwt.decode calls
    gc_cache,              \* gateway: _gateway_client_cache, url -> client
    gc_lock,               \* gateway: the thread that holds _cache_lock, or 0
    gc_created,            \* gateway: GatewayClient constructions per url
    gc_pc,                 \* get_gateway_client: position of each thread
    gc_arg,                \* get_gateway_client: (gateway_url, api_key) of the call
    gc_ret,                 \* get_gateway_client: the client returned
    ek_env,                \* get_encryption_key: CI, INTENT_MASTER_KEY and the keyring module
    ek_keyring,            \* get_encryption_key: the key in the OS keyring
    ek_cache,              \* get_encryption_key: _encryption_key_cache
    ek_generated,          \* get_encryption_key: keys generated so far
    ek_pc,                 \* get_encryption_key: position of each thread
    ek_key,                \* get_encryption_key: the local variable key
    ek_out,                \* get_encryption_key: how the last call of each thread ended
    ek_returned,           \* get_encryption_key: every key returned so far
    ek_cached,              \* get_encryption_key: every value assigned to the cache
    ids_store,             \* key store file: the DIDs under "identities"
    ids_pc,                \* add_identity, get_or_create_did: position of each caller
    ids_mode,              \* which call a caller is in
    ids_did,               \* the DID a caller adds
    ids_local,             \* add_identity: the local variable store
    ids_created,           \* identities generated so far
    ids_added,             \* the DIDs whose add_identity has returned
    ids_returned,          \* the DIDs get_or_create_did has returned
    ids_direct,             \* add_identity was called other than by get_or_create_did
    rl_pc,                 \* redis lock: position of the holder in register_did
    rl_retry,              \* redis lock: retry_count of the holder's register_did
    rl_elapsed             \* redis lock: milliseconds since the lock was acquired

vars == <<pc, force, lock, acquired, waited, warned, retry_count,
          max_retries, attempts, last_error, rd, result, is_registered,
          lockHolders, gwRegistered, GRPC_AVAILABLE, crossProcess,
          issued, overlap, lastResp, onlyUnavail, backoff_base, sleeps,
          si_pc, si_in, si_trace, si_result, si_warned, si_reg,
          TTLCACHE_AVAILABLE, error_log_cache, error_log_timestamps,
          log_now, log_emitted, log_call, lt_pc, lt_call, lt_emitted, log_lock,
          pin_pc, pin_cfg, pin_retry_count, pin_left, pin_posts, pin_wire,
          pin_resp, pin_seen, pin_raised, pin_result,
          stake_built, min_stake_override, min_stake_wei,
          min_stake_wei_timestamp, stake_now, stake_chain, stake_calls,
          stake_read, ks_pc, ks_built, ks_lock, ks_exists, ks_failed,
          gd_identities, gd_result, tx_receipt, tx_valid,
          jwt_in, jwt_out,
          gc_cache, gc_lock, gc_created, gc_pc, gc_arg, gc_ret,
          ek_env, ek_keyring, ek_cache, ek_generated, ek_pc, ek_key, ek_out, ek_returned, ek_cached,
          ids_store, ids_pc, ids_mode, ids_did, ids_local, ids_created, ids_added, ids_returned, ids_direct,
          rl_pc, rl_retry, rl_elapsed>>

\* the process a thread runs in
ProcOf(t) == IF crossProcess /\ t = NumThreads THEN 2 ELSE 1

\* ------------------------------------------------------------ outcomes
NoOutcome == [kind |-> "none", type |-> "none", code |-> "none"]
Returned(ty, c) == [kind |-> "return", type |-> ty, code |-> c]
Raised(ty, c) == [kind |-> "raise", type |-> ty, code |-> c]

\* gateway/exceptions.py: members of the RegisterError enum
RegisterError ==
    {"UNKNOWN_UNSPECIFIED", "DOC_CID_EMPTY", "ALREADY_REGISTERED", "INVALID_DID",
     "SCHEMA_VERSION_MISMATCH", "INVALID_OPERATOR", "DID_QUOTA_EXCEEDED",
     "PROCESSING_ERROR", "UNAUTHORIZED", "INVALID_PAYLOAD"}

\* error codes a receipt can carry on the wire
WireCodes == RegisterError \cup {"INVALID_DOC_CID"}

GrpcCodes ==
    {"DEADLINE_EXCEEDED", "UNAVAILABLE", "RESOURCE_EXHAUSTED", "INTERNAL",
     "UNKNOWN", "PERMISSION_DENIED"}

\* What one self.stub.RegisterDid(...) call can produce.  kw: the error text
\* contains one of the retryable keywords of client.py:863.
Receipts ==
    {[kind |-> "receipt", success |-> TRUE, code |-> "UNKNOWN_UNSPECIFIED", kw |-> FALSE]}
    \cup [kind : {"receipt"}, success : {FALSE}, code : WireCodes, kw : BOOLEAN]

GrpcErrors == [kind : {"grpc"}, success : {FALSE}, code : GrpcCodes, kw : {FALSE}]

OtherErrors ==
    [kind : {"exc"}, success : {FALSE}, code : {"none"}, kw : BOOLEAN]
    \cup [kind : {"quota", "gwtimeout"}, success : {FALSE}, code : {"none"}, kw : {FALSE}]

\* a gRPC status can only come from the gRPC runtime
StubResponses(grpc) ==
    Receipts \cup OtherErrors \cup (IF grpc THEN GrpcErrors ELSE {})

\* ---------------------------------------------------- register_did, one attempt
\* ErrorBranches without the ALREADY_REGISTERED branch of lines 730-733
ErrorBranchesNoAlready ==
    <<"DID_QUOTA_EXCEEDED", "INVALID_DID", "INVALID_DOC_CID", "UNAUTHORIZED",
      "INVALID_PAYLOAD">>

\* client.py:730-756: the codes the if/elif chain compares error_code with, in order
ErrorBranches ==
    <<"ALREADY_REGISTERED", "DID_QUOTA_EXCEEDED", "INVALID_DID", "INVALID_DOC_CID",
      "UNAUTHORIZED", "INVALID_PAYLOAD">>

\* Walks the if/elif chain: evaluating RegisterError.<name> for a name the enum
\* does not define raises AttributeError before the comparison is made.
RECURSIVE MatchBranch(_, _)
MatchBranch(code, i) ==
    IF i > Len(ErrorBranches) THEN "else"
    ELSE IF ErrorBranches[i] \notin RegisterError THEN "AttributeError"
    ELSE IF code = ErrorBranches[i] THEN ErrorBranches[i]
    ELSE MatchBranch(code, i + 1)

\* exception objects seen by the handlers: class, code() or error_code, keyword in str(e)
Exc(cls, c, kw) == [cls |-> cls, code |-> c, kw |-> kw]

\* client.py:709-770, the body of the try: "return", "raise" (inside the try) or
\* "else" (the retryable branch of the receipt handling)
TryBody(resp) ==
    IF resp.kind = "grpc" THEN [act |-> "raise", e |-> Exc("RpcError", resp.code, resp.kw)]
    ELSE IF resp.kind = "exc" THEN [act |-> "raise", e |-> Exc("Exception", "none", resp.kw)]
    ELSE IF resp.kind = "quota" THEN [act |-> "raise", e |-> Exc("QuotaExceededError", "none", FALSE)]
    ELSE IF resp.kind = "gwtimeout" THEN [act |-> "raise", e |-> Exc("GatewayTimeoutError", "none", FALSE)]
    ELSE IF resp.success THEN [act |-> "return", e |-> Exc("TxReceipt", "ok", FALSE)]
    ELSE LET b == MatchBranch(resp.code, 1) IN
         IF b = "ALREADY_REGISTERED"
           THEN [act |-> "return", e |-> Exc("TxReceipt", "ALREADY_REGISTERED", FALSE)]
         ELSE IF b = "DID_QUOTA_EXCEEDED"
           THEN [act |-> "raise", e |-> Exc("QuotaExceededError", "none", FALSE)]
         ELSE IF b = "AttributeError"
           THEN [act |-> "raise", e |-> Exc("AttributeError", "none", FALSE)]
         ELSE IF b = "else"
           THEN [act |-> "else", e |-> Exc("GatewayResponseError", resp.code, resp.kw)]
         \* INVALID_DID, INVALID_DOC_CID, UNAUTHORIZED, INVALID_PAYLOAD: the message
         \* embeds the receipt's error text
         ELSE [act |-> "raise", e |-> Exc("GatewayResponseError", resp.code, resp.kw)]

\* hasattr(e, "code") and callable(e.code)
HasCode(e) == e.cls = "RpcError"

\* Classify with UNAVAILABLE taken for a fatal gRPC status
ClassifyUnavailableFatal(e, grpc) ==
    IF grpc /\ HasCode(e) /\ e.code # "DEADLINE_EXCEEDED" THEN
        IF e.code = "UNAVAILABLE"
          THEN [last_error |-> Raised("GatewayConnectionError", "none"), is_retryable |-> FALSE]
        ELSE [last_error |-> Raised("GatewayError", "none"), is_retryable |-> FALSE]
    ELSE [last_error |-> Raised("GatewayError", "none"), is_retryable |-> e.kw]

\* client.py:803-865: last_error and is_retryable for an exception the generic
\* handler did not turn into a timeout
Classify(e, grpc) ==
    IF grpc /\ HasCode(e) /\ e.code # "DEADLINE_EXCEEDED" THEN
        IF e.code = "UNAVAILABLE"
          THEN [last_error |-> Raised("GatewayConnectionError", "none"), is_retryable |-> TRUE]
        ELSE IF e.code \in {"RESOURCE_EXHAUSTED", "INTERNAL", "UNKNOWN"}
          THEN [last_error |-> Raised("GatewayError", "none"), is_retryable |-> TRUE]
        ELSE [last_error |-> Raised("GatewayError", "none"), is_retryable |-> FALSE]
    ELSE IF e.cls = "GatewayTimeoutError"
      THEN [last_error |-> Raised("GatewayTimeoutError", "none"), is_retryable |-> FALSE]
    ELSE [last_error |-> Raised("GatewayError", "none"), is_retryable |-> e.kw]

\* IsDeadline without the early check of lines 792-800
IsDeadlineNever(e, grpc) == FALSE

\* client.py:792-800: DEADLINE_EXCEEDED leaves the handler at once
IsDeadline(e, grpc) == grpc /\ HasCode(e) /\ e.code = "DEADLINE_EXCEEDED"

\* client.py:868: retry or raise
ShouldRetry(is_retryable, rc, mr) == is_retryable /\ rc < mr

\* client.py:696: the loop condition
LoopGuard(rc, mr) == rc <= mr

\* client.py:883-886: the loop ended without returning or raising
AfterLoop(le) == IF le.kind = "none" THEN Raised("GatewayError", "none") ELSE le

\* ExceptClauses without the clause "except QuotaExceededError: raise" (lines 772-774)
ExceptClausesNoQuotaClause(e, rc, mr, le, grpc) ==
    IF IsDeadline(e, grpc)
      THEN [act |-> "raise", out |-> Raised("GatewayTimeoutError", "none"),
            retry_count |-> rc, last_error |-> le]
    ELSE LET c == Classify(e, grpc) IN
         IF ShouldRetry(c.is_retryable, rc, mr)
           THEN [act |-> "continue", out |-> NoOutcome,
                 retry_count |-> rc + 1, last_error |-> c.last_error]
           ELSE [act |-> "raise", out |-> c.last_error,
                 retry_count |-> rc, last_error |-> c.last_error]

\* ExceptClauses without retry_count += 1 (line 871)
ExceptClausesNoCount(e, rc, mr, le, grpc) ==
    IF e.cls = "QuotaExceededError"
      THEN [act |-> "raise", out |-> Raised("QuotaExceededError", "none"),
            retry_count |-> rc, last_error |-> le]
    ELSE LET c == Classify(e, grpc) IN
         IF ShouldRetry(c.is_retryable, rc, mr)
           THEN [act |-> "continue", out |-> NoOutcome,
                 retry_count |-> rc, last_error |-> c.last_error]
           ELSE [act |-> "raise", out |-> c.last_error,
                 retry_count |-> rc, last_error |-> c.last_error]

\* client.py:772-878: the except clauses
ExceptClauses(e, rc, mr, le, grpc) ==
    IF e.cls = "QuotaExceededError"
      THEN [act |-> "raise", out |-> Raised("QuotaExceededError", "none"),
            retry_count |-> rc, last_error |-> le]
    ELSE IF IsDeadline(e, grpc)
      THEN [act |-> "raise", out |-> Raised("GatewayTimeoutError", "none"),
            retry_count |-> rc, last_error |-> le]
    ELSE LET c == Classify(e, grpc) IN
         IF ShouldRetry(c.is_retryable, rc, mr)
           THEN [act |-> "continue", out |-> NoOutcome,
                 retry_count |-> rc + 1, last_error |-> c.last_error]
           ELSE [act |-> "raise", out |-> c.last_error,
                 retry_count |-> rc, last_error |-> c.last_error]

\* One iteration of the while loop of register_did for the stub's answer resp
Attempt(resp, rc, mr, le, grpc) ==
    LET b == TryBody(resp) IN
    IF b.act = "return"
      THEN [act |-> "return", out |-> Returned(b.e.cls, b.e.code),
            retry_count |-> rc, last_error |-> le]
    ELSE IF b.act = "else"
      THEN [act |-> "continue", out |-> NoOutcome, retry_count |-> rc + 1,
            last_error |-> Raised("GatewayResponseError", b.e.code)]
    ELSE ExceptClauses(b.e, rc, mr, le, grpc)

\* An iteration followed by the loop test: a "continue" that exhausts the loop
\* ends the call with the error after the loop
Iteration(resp, rc, mr, le, grpc) ==
    LET a == Attempt(resp, rc, mr, le, grpc) IN
    IF a.act = "continue" /\ ~LoopGuard(a.retry_count, mr)
      THEN [a EXCEPT !.act = "raise", !.out = AfterLoop(a.last_error)]
      ELSE a

\* ------------------------------------------------------------ the Gateway
NoResp == [kind |-> "none", success |-> FALSE, code |-> "none", kw |-> FALSE]

IsOk(resp) == resp.kind = "receipt" /\ resp.success
IsAlready(resp) == resp.kind = "receipt" /\ ~resp.success /\ resp.code = "ALREADY_REGISTERED"

\* The Gateway registers a DID it does not hold and reports ALREADY_REGISTERED
\* for one it holds; every error answer is possible at any time.
GatewayAnswers(registered, grpc) ==
    {r \in StubResponses(grpc) :
        /\ IsOk(r) => ~registered
        /\ IsAlready(r) => registered}

\* client.py:696-886: every way a whole register_did call can end, with
\* whether its last request registered the DID
RECURSIVE LoopEnds(_, _, _, _, _)
LoopEnds(rc, mr, le, grpc, answers) ==
    UNION { LET a == Iteration(resp, rc, mr, le, grpc) IN
            IF a.act = "continue"
              THEN LoopEnds(a.retry_count, mr, a.last_error, grpc, answers)
              ELSE {[out |-> a.out, registers |-> IsOk(resp)]}
          : resp \in answers }

\* registration.py:309-314: register_did with the default max_retries
DefaultEnds ==
    [grpc \in BOOLEAN |-> [registered \in BOOLEAN |->
        LoopEnds(0, DEFAULT_MAX_RETRIES, NoOutcome, grpc, GatewayAnswers(registered, grpc))]]

\* ------------------------------------------------- ensure_registered, steps
\* registration.py:273-275 and 297-299: the check of the flag under _thread_lock
AlreadyKnown(flag, f) == flag /\ ~f

\* registration.py:278-282: _get_lock returns a lock, or raises ImportError or
\* ValueError (caught: lock = None), or another error of lock-file creation
\* (os.makedirs, line 145), which no except clause catches
LockCreation == {"lock", "None", "raise"}

\* OnRegisterResult with the flag set before the outcome is known
OnRegisterResultMarkFirst(r) ==
    IF r.kind = "return" THEN [mark |-> TRUE, result |-> Returned("bool", "True")]
    ELSE [mark |-> TRUE, result |-> r]

\* registration.py:315-327: what ensure_registered does with the end of register_did
OnRegisterResult(r) ==
    IF r.kind = "return" THEN [mark |-> TRUE, result |-> Returned("bool", "True")]
    ELSE IF r.type = "AlreadyRegisteredError"
      THEN [mark |-> TRUE, result |-> Returned("bool", "False")]
    ELSE [mark |-> FALSE, result |-> r]

\* ReleaseInFinally as a release on the normal return only
ReleaseOnReturnOnly(l, acq, r) == l = "lock" /\ acq /\ r.kind = "return"

\* registration.py:328-332: the finally clause releases the lock it acquired,
\* however the call ends (r)
ReleaseInFinally(l, acq, r) == l = "lock" /\ acq

AfterFinally(t, r) ==
    IF ReleaseInFinally(lock[t], acquired[t], r) THEN lockHolders \ {t} ELSE lockHolders

\* fasteners.InterProcessLock, one object shared by the threads of a process
\* (registration.py:134-150): it excludes other processes; between threads of
\* one process it guarantees nothing, so a holder of the same process may or
\* may not keep t out.
CanAcquire(t) == \A h \in lockHolders : ProcOf(h) = ProcOf(t)
Contended(t) == lockHolders \ {t} # {}

\* registration.py:288: lock.acquire(timeout=10) gives up after the timeout
Leftover(w) == LOCK_TIMEOUT - w
TimedOut(w) == Leftover(w) <= 0

Min(a, b) == IF a < b THEN a ELSE b

rdLocals == <<retry_count, max_retries, attempts, last_error, lastResp, onlyUnavail,
              backoff_base, sleeps>>
env == <<GRPC_AVAILABLE, crossProcess>>
siVars == <<si_pc, si_in, si_trace, si_result, si_warned, si_reg>>
\* the state of the components an ensure_registered or register_did step leaves alone
ltVars == <<lt_pc, lt_call, lt_emitted, log_lock>>
logVars == <<TTLCACHE_AVAILABLE, error_log_cache, error_log_timestamps,
             log_now, log_emitted, log_call, ltVars>>
pinVars == <<pin_pc, pin_cfg, pin_retry_count, pin_left, pin_posts, pin_wire,
             pin_resp, pin_seen, pin_raised, pin_result>>
stakeVars == <<stake_built, min_stake_override, min_stake_wei,
               min_stake_wei_timestamp, stake_now, stake_chain, stake_calls,
               stake_read>>
ksVars == <<ks_pc, ks_built, ks_lock, ks_exists, ks_failed>>
gdVars == <<gd_identities, gd_result>>
txVars == <<tx_receipt, tx_valid>>
jwtVars == <<jwt_in, jwt_out>>
gcVars == <<gc_cache, gc_lock, gc_created, gc_pc, gc_arg, gc_ret>>
ekVars == <<ek_env, ek_keyring, ek_cache, ek_generated, ek_pc, ek_key, ek_out, ek_returned, ek_cached>>
idsVars == <<ids_store, ids_pc, ids_mode, ids_did, ids_local, ids_created, ids_added, ids_returned, ids_direct>>
rlVars == <<rl_pc, rl_retry, rl_elapsed>>
others == <<siVars, logVars, pinVars, stakeVars, ksVars, gdVars, txVars, jwtVars, gcVars, ekVars, idsVars, rlVars>>

\* registration.py:272-282: first check of the flag, then _get_lock
Call(t) ==
    /\ pc[t] = "idle"
    /\ \E f \in BOOLEAN, c \in LockCreation :
        /\ rd' = [rd EXCEPT ![t] = NoOutcome]
        /\ acquired' = [acquired EXCEPT ![t] = FALSE]
        /\ IF AlreadyKnown(is_registered[ProcOf(t)], f)
             THEN /\ result' = [result EXCEPT ![t] = Returned("bool", "False")]
                  /\ lock' = [lock EXCEPT ![t] = "unset"]
                  /\ warned' = [warned EXCEPT ![t] = FALSE]
                  /\ UNCHANGED <<pc, force>>
           ELSE IF c = "raise"
             THEN /\ result' = [result EXCEPT ![t] = Raised("OSError", "none")]
                  /\ lock' = [lock EXCEPT ![t] = "unset"]
                  /\ warned' = [warned EXCEPT ![t] = FALSE]
                  /\ UNCHANGED <<pc, force>>
             ELSE /\ result' = [result EXCEPT ![t] = NoOutcome]
                  /\ lock' = [lock EXCEPT ![t] = c]
                  /\ warned' = [warned EXCEPT ![t] = (c = "None")]
                  /\ force' = [force EXCEPT ![t] = f]
                  /\ pc' = [pc EXCEPT ![t] = IF c = "lock" THEN "acquire" ELSE "recheck"]
    /\ overlap' = IF /\ pc'[t] # "idle" /\ ~force'[t]
                      /\ ~crossProcess /\ ~is_registered[ProcOf(t)]
                      /\ (overlap = "part" \/ \A u \in Threads \ {t} : pc[u] = "idle")
                   THEN IF \A u \in Threads : pc'[u] # "idle" THEN "all" ELSE "part"
                   ELSE "none"
    /\ UNCHANGED <<waited, rdLocals, is_registered, lockHolders, gwRegistered, env, others, issued>>

\* registration.py:288: acquire returns True
LockAcquire(t) ==
    /\ pc[t] = "acquire"
    /\ CanAcquire(t)
    /\ acquired' = [acquired EXCEPT ![t] = TRUE]
    /\ lockHolders' = lockHolders \cup {t}
    /\ waited' = [waited EXCEPT ![t] = 0]
    /\ pc' = [pc EXCEPT ![t] = "recheck"]
    /\ UNCHANGED <<force, lock, warned, rdLocals, rd, result, is_registered,
                   gwRegistered, env, others, issued, overlap>>

\* time passes while t is blocked in acquire
LockWait(t) ==
    /\ pc[t] = "acquire"
    /\ Contended(t)
    /\ ~TimedOut(waited[t])
    /\ waited' = [waited EXCEPT ![t] = @ + Min(WaitStep, Leftover(@))]
    /\ UNCHANGED <<pc, force, lock, acquired, warned, rdLocals, rd, result,
                   is_registered, lockHolders, gwRegistered, env, others, issued, overlap>>

\* registration.py:289-290: acquire returns False after the timeout
LockTimeout(t) ==
    /\ pc[t] = "acquire"
    /\ Contended(t)
    /\ TimedOut(waited[t])
    /\ warned' = [warned EXCEPT ![t] = TRUE]
    /\ waited' = [waited EXCEPT ![t] = 0]
    /\ pc' = [pc EXCEPT ![t] = "recheck"]
    /\ UNCHANGED <<force, lock, acquired, rdLocals, rd, result, is_registered,
                   lockHolders, gwRegistered, env, others, issued, overlap>>

\* registration.py:291-292: acquire raises
LockError(t) ==
    /\ pc[t] = "acquire"
    /\ warned' = [warned EXCEPT ![t] = TRUE]
    /\ waited' = [waited EXCEPT ![t] = 0]
    /\ pc' = [pc EXCEPT ![t] = "recheck"]
    /\ UNCHANGED <<force, lock, acquired, rdLocals, rd, result, is_registered,
                   lockHolders, gwRegistered, env, others, issued, overlap>>

\* registration.py:297-305: second check of the flag; the early return runs the
\* finally clause, otherwise register_did is about to be called
Recheck(t) ==
    /\ pc[t] = "recheck"
    /\ IF AlreadyKnown(is_registered[ProcOf(t)], force[t])
         THEN /\ result' = [result EXCEPT ![t] = Returned("bool", "False")]
              /\ lockHolders' = AfterFinally(t, Returned("bool", "False"))
              /\ pc' = [pc EXCEPT ![t] = "idle"]
              /\ lock' = [lock EXCEPT ![t] = "unset"]
              /\ warned' = [warned EXCEPT ![t] = FALSE]
              /\ UNCHANGED issued
         ELSE /\ pc' = [pc EXCEPT ![t] = "register"]
              /\ issued' = IF force[t] THEN issued ELSE Min(issued + 1, 2)
              /\ UNCHANGED <<result, lockHolders, lock, warned>>
    /\ force' = [force EXCEPT ![t] = FALSE]
    /\ UNCHANGED <<acquired, waited, rdLocals, rd, is_registered,
                   gwRegistered, env, others, overlap>>

\* registration.py:309-314 and 325-335: the register_did call; an error it
\* raises leaves ensure_registered through the finally clause
RegisterCall(t) ==
    /\ pc[t] = "register"
    /\ \E e \in DefaultEnds[GRPC_AVAILABLE][gwRegistered] :
        LET o == OnRegisterResult(e.out) IN
        /\ rd' = [rd EXCEPT ![t] = e.out]
        /\ gwRegistered' = (gwRegistered \/ e.registers)
        /\ IF e.out.kind = "raise" /\ ~o.mark
             THEN /\ result' = [result EXCEPT ![t] = o.result]
                  /\ lockHolders' = AfterFinally(t, o.result)
                  /\ pc' = [pc EXCEPT ![t] = "idle"]
                  /\ lock' = [lock EXCEPT ![t] = "unset"]
                  /\ warned' = [warned EXCEPT ![t] = FALSE]
             ELSE /\ pc' = [pc EXCEPT ![t] = "after_rd"]
                  /\ UNCHANGED <<result, lockHolders, lock, warned>>
    /\ UNCHANGED <<force, acquired, waited, rdLocals, is_registered, env, others,
                   issued, overlap>>

\* registration.py:315-335: the flag is set under _thread_lock, the call
\* returns through the finally clause
Complete(t) ==
    /\ pc[t] = "after_rd"
    /\ LET o == OnRegisterResult(rd[t]) IN
        /\ is_registered' = IF o.mark THEN [is_registered EXCEPT ![ProcOf(t)] = TRUE]
                            ELSE is_registered
        /\ result' = [result EXCEPT ![t] = o.result]
        /\ lockHolders' = AfterFinally(t, o.result)
    /\ pc' = [pc EXCEPT ![t] = "idle"]
    /\ lock' = [lock EXCEPT ![t] = "unset"]
    /\ warned' = [warned EXCEPT ![t] = FALSE]
    /\ UNCHANGED <<force, acquired, waited, rdLocals, rd, gwRegistered, env, others,
                   issued, overlap>>

\* ------------------------------------------------- register_did, stepwise
\* values of backoff_base a caller passes: none, the default, twice the default
BackoffBases == {0, DEFAULT_BACKOFF_BASE, 2 * DEFAULT_BACKOFF_BASE}

\* client.py:701: values random.uniform(0, 0.1) can take, in percent
JitterSamples == {0, MAX_JITTER \div 2, MAX_JITTER}

\* Delay doubling once too often
DelayOffByOne(base, rc) == base * 2 ^ rc

\* client.py:699: delay = backoff_base * (2 ** (retry_count - 1))
Delay(base, rc) == base * 2 ^ (rc - 1)

\* client.py:701-702: actual_delay = delay + delay * random.uniform(0, 0.1)
ActualDelay(base, rc, j) == Delay(base, rc) + (Delay(base, rc) * j) \div 100

\* client.py:698-704: the sleeps of the call after the top of an iteration
AfterBackoff(sl, base, rc, j) ==
    IF rc > 0 THEN Append(sl, ActualDelay(base, rc, j)) ELSE sl

\* client.py:640-693: a caller starts register_did(max_retries=m)
CallRegisterDid(t) ==
    /\ pc[t] = "idle"
    /\ \E m \in 0..MaxRetriesBound : max_retries' = [max_retries EXCEPT ![t] = m]
    /\ backoff_base' \in BackoffBases
    /\ sleeps' = <<>>
    /\ pc' = [pc EXCEPT ![t] = "rd_call"]
    /\ retry_count' = [retry_count EXCEPT ![t] = 0]
    /\ attempts' = [attempts EXCEPT ![t] = 0]
    /\ last_error' = [last_error EXCEPT ![t] = NoOutcome]
    /\ rd' = [rd EXCEPT ![t] = NoOutcome]
    /\ lastResp' = [lastResp EXCEPT ![t] = NoResp]
    /\ onlyUnavail' = [onlyUnavail EXCEPT ![t] = TRUE]
    /\ UNCHANGED <<force, lock, acquired, waited, warned, result, is_registered,
                   lockHolders, gwRegistered, env, others, issued, overlap>>

\* client.py:696-886: one iteration of the retry loop, one RegisterDid request
RegisterAttempt(t) ==
    /\ pc[t] = "rd_call"
    /\ \E j \in (IF retry_count[t] > 0 THEN JitterSamples ELSE {0}) :
        sleeps' = AfterBackoff(sleeps, backoff_base, retry_count[t], j)
    /\ \E resp \in GatewayAnswers(gwRegistered, GRPC_AVAILABLE) :
        LET a == Iteration(resp, retry_count[t], max_retries[t], last_error[t],
                           GRPC_AVAILABLE)
        IN  /\ attempts' = [attempts EXCEPT ![t] = @ + 1]
            /\ gwRegistered' = (gwRegistered \/ IsOk(resp))
            /\ retry_count' = [retry_count EXCEPT ![t] = a.retry_count]
            /\ last_error' = [last_error EXCEPT ![t] = a.last_error]
            /\ rd' = [rd EXCEPT ![t] = a.out]
            /\ pc' = [pc EXCEPT ![t] = IF a.act = "continue" THEN "rd_call" ELSE "idle"]
            /\ lastResp' = [lastResp EXCEPT ![t] = resp]
            /\ onlyUnavail' = [onlyUnavail EXCEPT ![t] =
                                 @ /\ resp.kind = "grpc" /\ resp.code = "UNAVAILABLE"]
    /\ UNCHANGED <<force, lock, acquired, waited, warned, max_retries, result,
                   is_registered, lockHolders, env, others, issued, overlap, backoff_base>>

\* ------------------------------------------------------------ send_intent
\* The client's configuration and the arguments of one send_intent call:
\* contract and signer configured, payload valid, envelope_hash is hex, an
\* IdentityManager exists, state of the DID in the DIDRegistry ("none": no
\* registry configured), force, wait_for_receipt.
SendIntentInputs ==
    [configured : BOOLEAN, valid : BOOLEAN, hex : BOOLEAN, manager : BOOLEAN,
     registry : {"none", "active", "inactive"}, force : BOOLEAN, wait : BOOLEAN]

NoCall ==
    [configured |-> TRUE, valid |-> TRUE, hex |-> TRUE, manager |-> FALSE,
     registry |-> "none", force |-> FALSE, wait |-> TRUE]

\* the steps of send_intent in the order of the code
StepOrder ==
    <<"validate", "register", "resolve", "pin", "cid", "hash", "build", "sign",
      "send", "wait">>

StepIndex(st) == CHOOSE i \in 1..Len(StepOrder) : StepOrder[i] = st

\* client.py:385-401: the except clauses around the body of send_intent
OuterExcept(exc) ==
    IF exc \in {"PinningError", "EnvelopeError", "Web3Exception", "TransactionError"}
      THEN exc
      ELSE "TransactionError"

\* client.py:290-293: every failure of ipfs_cid_to_bytes becomes EnvelopeError
CidExcept(exc) == OuterExcept("EnvelopeError")

\* SignExcept letting the signer's exception through
SignExceptUnwrapped(exc) == exc

\* client.py:347-354: every failure of the signer becomes TransactionError
SignExcept(exc) == OuterExcept("TransactionError")

\* client.py:357-364: Web3 exceptions are re-raised, others become TransactionError
SendExcept(exc) ==
    OuterExcept(IF exc = "Web3Exception" THEN exc ELSE "TransactionError")

\* what the calls made by the steps can raise
LedgerErrors == {"Web3Exception", "Exception"}

\* how ensure_registered can end: the results of registration.py:272-335
EnsureOutcomes ==
    {Returned("bool", "False"), Raised("OSError", "none")}
    \cup {OnRegisterResult(e.out).result :
            e \in DefaultEnds[TRUE][TRUE] \cup DefaultEnds[TRUE][FALSE]}

\* OnEnsureRegistered swallowing every error of ensure_registered
OnEnsureRegisteredSwallowAll(r) == IF r.kind = "raise" THEN "swallow" ELSE "go"

\* OnEnsureRegistered surfacing every error of ensure_registered
OnEnsureRegisteredSurfaceAll(r) == IF r.kind = "raise" THEN "raise" ELSE "go"

\* send_intent step 2: QuotaExceededError is surfaced, other errors of
\* ensure_registered are logged and swallowed
OnEnsureRegistered(r) ==
    IF r.kind = "raise" /\ r.type = "QuotaExceededError" THEN "raise"
    ELSE IF r.kind = "raise" THEN "swallow"
    ELSE "go"

\* InactiveBlocks ignoring the registry
InactiveBlocksNever(registry, f) == FALSE

\* send_intent step 3: a DID the registry resolves as inactive stops the call
\* unless force is set
InactiveBlocks(registry, f) == registry = "inactive" /\ ~f

\* the step after the payload validation, and after the registration
AfterRegistration(in) == IF in.registry # "none" THEN "resolve" ELSE "pin"
AfterValidation(in) == IF in.manager THEN "register" ELSE AfterRegistration(in)

\* a step took effect and the call moves on
Advance(st, to) ==
    /\ si_trace' = Append(si_trace, st)
    /\ si_pc' = to
    /\ UNCHANGED <<si_in, si_result>>

\* Fail with the effect of the failing step left behind
FailAfterEffect(st, exc) ==
    /\ si_pc' = "idle"
    /\ si_result' = Raised(exc, st)
    /\ si_trace' = Append(si_trace, st)
    /\ UNCHANGED si_in

\* a step raised exc and the call ends
Fail(st, exc) ==
    /\ si_pc' = "idle"
    /\ si_result' = Raised(exc, st)
    /\ UNCHANGED <<si_in, si_trace>>

regVars == <<pc, force, lock, acquired, waited, warned, rdLocals, rd, result,
             is_registered, lockHolders, gwRegistered, env, issued, overlap>>
\* everything outside send_intent
notSI == <<regVars, logVars, pinVars, stakeVars, ksVars, gdVars, txVars, jwtVars, gcVars, ekVars, idsVars, rlVars>>

\* client.py:248-282: a call starts; without contract or signer it ends at once
SendIntent ==
    /\ si_pc = "idle"
    /\ \E in \in SendIntentInputs :
        /\ si_in' = in
        /\ IF in.configured
             THEN si_pc' = "validate" /\ si_result' = NoOutcome
             ELSE si_pc' = "idle" /\ si_result' = Raised("ValueError", "configuration")
    /\ si_trace' = <<>>
    /\ si_warned' = FALSE
    /\ si_reg' = NoOutcome
    /\ UNCHANGED notSI

\* client.py:285-286 and 422-449: _validate_payload
ValidatePayload ==
    /\ si_pc = "validate"
    /\ IF si_in.valid
         THEN Advance("validate", AfterValidation(si_in))
         ELSE Fail("validate", OuterExcept("EnvelopeError"))
    /\ UNCHANGED <<notSI, si_warned, si_reg>>

\* send_intent step 2: ensure_registered of the IdentityManager
EnsureRegisteredStep ==
    /\ si_pc = "register"
    /\ \E r \in EnsureOutcomes :
        LET o == OnEnsureRegistered(r) IN
        /\ si_reg' = r
        /\ IF o = "raise"
             THEN Fail("register", r.type) /\ UNCHANGED si_warned
             ELSE /\ si_warned' = (o = "swallow")
                  /\ IF o = "go"
                       THEN Advance("register", AfterRegistration(si_in))
                       ELSE /\ si_pc' = AfterRegistration(si_in)
                            /\ UNCHANGED <<si_in, si_trace, si_result>>
    /\ UNCHANGED notSI

\* send_intent step 3: the DID is resolved in the DIDRegistry
ResolveDid ==
    /\ si_pc = "resolve"
    /\ IF InactiveBlocks(si_in.registry, si_in.force)
         THEN Fail("resolve", "InactiveDIDError")
         ELSE Advance("resolve", "pin")
    /\ UNCHANGED <<notSI, si_warned, si_reg>>

\* client.py:288-289: pin_to_ipfs returns a CID or raises PinningError
PinPayload ==
    /\ si_pc = "pin"
    /\ \/ Advance("pin", "cid")
       \/ Fail("pin", OuterExcept("PinningError"))
    /\ UNCHANGED <<notSI, si_warned, si_reg>>

\* client.py:290-293: ipfs_cid_to_bytes
CidToBytes ==
    /\ si_pc = "cid"
    /\ \/ Advance("cid", "hash")
       \/ Fail("cid", CidExcept("Exception"))
    /\ UNCHANGED <<notSI, si_warned, si_reg>>

\* client.py:295-302: the envelope hash is turned into bytes
NormaliseHash ==
    /\ si_pc = "hash"
    /\ IF si_in.hex
         THEN Advance("hash", "build")
         ELSE Fail("hash", OuterExcept("EnvelopeError"))
    /\ UNCHANGED <<notSI, si_warned, si_reg>>

\* client.py:304-343: nonce, gas (a failed estimate falls back to the default),
\* gas price, build_transaction
BuildTransaction ==
    /\ si_pc = "build"
    /\ \/ Advance("build", "sign")
       \/ \E exc \in LedgerErrors : Fail("build", OuterExcept(exc))
    /\ UNCHANGED <<notSI, si_warned, si_reg>>

\* client.py:345-354: sign_transaction
SignTransaction ==
    /\ si_pc = "sign"
    /\ \/ Advance("sign", "send")
       \/ \E exc \in LedgerErrors : Fail("sign", SignExcept(exc))
    /\ UNCHANGED <<notSI, si_warned, si_reg>>

\* client.py:356-364: send_raw_transaction
SendTransaction ==
    /\ si_pc = "send"
    /\ \/ Advance("send", "wait")
       \/ \E exc \in LedgerErrors : Fail("send", SendExcept(exc))
    /\ UNCHANGED <<notSI, si_warned, si_reg>>

\* client.py:366-383: the receipt is awaited, or a minimal receipt is returned
AwaitReceipt ==
    /\ si_pc = "wait"
    /\ IF si_in.wait
         THEN \/ /\ si_trace' = Append(si_trace, "wait")
                 /\ si_pc' = "idle"
                 /\ si_result' = Returned("TxReceipt", "receipt")
                 /\ UNCHANGED si_in
              \/ \E exc \in LedgerErrors : Fail("wait", OuterExcept(exc))
         ELSE /\ si_pc' = "idle"
              /\ si_result' = Returned("TxReceipt", "minimal")
              /\ UNCHANGED <<si_in, si_trace>>
    /\ UNCHANGED <<notSI, si_warned, si_reg>>

\* ------------------------------------------------------- rate_limited_log
\* everything outside rate_limited_log
notLog == <<regVars, siVars, pinVars, stakeVars, ksVars, gdVars, txVars, jwtVars, gcVars, ekVars, idsVars, rlVars>>

\* a string is the sequence of its pieces, so that a key is what the f-string
\* of rate_limited_log builds
Warning == <<"warning">>
LogCalls ==
    { [level |-> Warning, message |-> <<"down">>],
      [level |-> Warning, message |-> <<"x", ":", "down">>],
      [level |-> Warning \o <<":", "x">>, message |-> <<"down">>] }

\* the intervals a caller passes: the default, and one longer than the TTL
Intervals == {DEFAULT_INTERVAL, 2 * TTL}

\* key = f"{level}:{message}"
Key(level, message) == level \o <<":">> \o message
Keys == {Key(c.level, c.message) : c \in LogCalls}

NoTime == -1
NoLogCall ==
    [made |-> FALSE, level |-> <<>>, message |-> <<>>, interval |-> 0,
     emitted |-> FALSE, prev |-> NoTime, at |-> 0]

\* TTLCache.__contains__: the key has an entry that has not expired
InCache(cache, key, now) ==
    \E i \in 1..Len(cache) : cache[i].key = key /\ now < cache[i].expires

\* TTLCache.expire: the entries that have not expired, in order
Unexpired(cache, now) ==
    LET Live(e) == now < e.expires IN SelectSeq(cache, Live)

\* TTLCache.__setitem__ of a key without a live entry: expired entries go,
\* the oldest entry goes when the cache is full, the new entry expires after TTL
CacheSet(cache, key, now) ==
    LET live == Unexpired(cache, now)
        room == IF Len(live) >= TTL_MAXSIZE THEN Tail(live) ELSE live
    IN  Append(room, [key |-> key, expires |-> now + TTL])

\* the TTLCache branch: the key is in the cache
SuppressedByCache(key, interval, now) == InCache(error_log_cache, key, now)

\* the fallback branch: last_time and now - last_time < timedelta(seconds=interval)
SuppressedByTimestamp(key, interval, now) ==
    /\ error_log_timestamps[key] # NoTime
    /\ now - error_log_timestamps[key] < interval

\* the fallback's cleanup: entries older than the cutoff are popped
CleanUp(timestamps, now) ==
    [k \in Keys |-> IF timestamps[k] # NoTime /\ timestamps[k] < now - EXPIRED_CUTOFF
                     THEN NoTime ELSE timestamps[k]]

\* rate_limited_log(message, level, interval), under the module's lock
RateLimitedLog(c, interval) ==
    LET key == Key(c.level, c.message)
        skip == IF TTLCACHE_AVAILABLE
                  THEN SuppressedByCache(key, interval, log_now)
                  ELSE SuppressedByTimestamp(key, interval, log_now)
    IN  /\ log_call' = [made |-> TRUE, level |-> c.level, message |-> c.message,
                        interval |-> interval, emitted |-> ~skip,
                        prev |-> log_emitted[c], at |-> log_now]
        /\ IF skip
             THEN UNCHANGED <<error_log_cache, error_log_timestamps, log_emitted>>
             ELSE /\ log_emitted' = [log_emitted EXCEPT ![c] = log_now]
                  /\ IF TTLCACHE_AVAILABLE
                       THEN /\ error_log_cache' = CacheSet(error_log_cache, key, log_now)
                            /\ UNCHANGED error_log_timestamps
                       ELSE /\ error_log_timestamps' =
                                 CleanUp([error_log_timestamps EXCEPT ![key] = log_now],
                                         log_now)
                            /\ UNCHANGED error_log_cache
        /\ UNCHANGED <<TTLCACHE_AVAILABLE, log_now>>
        /\ UNCHANGED <<notLog, ltVars>>

\* time passes
Tick ==
    /\ log_now + TimeStep <= MaxTime
    /\ log_now' = log_now + TimeStep
    /\ UNCHANGED <<TTLCACHE_AVAILABLE, error_log_cache, error_log_timestamps,
                   log_emitted, log_call>>
    /\ UNCHANGED <<notLog, ltVars>>

\* ------------------------------------- rate_limited_log, concurrent callers
NoThreadCall == [level |-> <<>>, message |-> <<>>, interval |-> 0]
ThreadKey(t) == Key(lt_call[t].level, lt_call[t].message)

\* the with block entered whoever is inside
LockFreeAlways == TRUE

\* `with _error_log_cache_lock:` / `with _error_log_timestamps_lock:` can be
\* entered when no thread is inside
LockFree == log_lock = 0

logShared == <<TTLCACHE_AVAILABLE, error_log_cache, error_log_timestamps,
               log_now, log_emitted, log_call>>

\* lines 50-56: a thread calls rate_limited_log and builds the key
LogEnter(t) ==
    /\ lt_pc[t] = "idle"
    /\ \E c \in LogCalls, interval \in Intervals :
        lt_call' = [lt_call EXCEPT ![t] =
                       [level |-> c.level, message |-> c.message,
                        interval |-> interval]]
    /\ lt_pc' = [lt_pc EXCEPT ![t] = "lock"]
    /\ UNCHANGED <<lt_emitted, log_lock, logShared, notLog>>

\* lines 60 and 70: the thread enters the with block
LogAcquire(t) ==
    /\ lt_pc[t] = "lock"
    /\ LockFree
    /\ log_lock' = t
    /\ lt_pc' = [lt_pc EXCEPT ![t] = "check"]
    /\ UNCHANGED <<lt_call, lt_emitted, logShared, notLog>>

\* lines 62-63 and 71-76: the key was logged recently, or not
LogCheck(t) ==
    /\ lt_pc[t] = "check"
    /\ LET skip == IF TTLCACHE_AVAILABLE
                     THEN SuppressedByCache(ThreadKey(t), lt_call[t].interval, log_now)
                     ELSE SuppressedByTimestamp(ThreadKey(t), lt_call[t].interval,
                                                log_now)
       IN  lt_pc' = [lt_pc EXCEPT ![t] = IF skip THEN "exit" ELSE "emit"]
    /\ UNCHANGED <<lt_call, lt_emitted, log_lock, logShared, notLog>>

\* lines 66 and 79: log_method(message)
LogEmit(t) ==
    /\ lt_pc[t] = "emit"
    /\ lt_emitted' = [lt_emitted EXCEPT ![t] = TRUE]
    /\ log_emitted' = [log_emitted EXCEPT
                          ![[level |-> lt_call[t].level,
                             message |-> lt_call[t].message]] = log_now]
    /\ lt_pc' = [lt_pc EXCEPT ![t] = "store"]
    /\ UNCHANGED <<lt_call, log_lock, TTLCACHE_AVAILABLE, error_log_cache,
                   error_log_timestamps, log_now, log_call, notLog>>

\* lines 67 and 80-86: the key is stored, the fallback cleans up
LogStore(t) ==
    /\ lt_pc[t] = "store"
    /\ IF TTLCACHE_AVAILABLE
         THEN /\ error_log_cache' = CacheSet(error_log_cache, ThreadKey(t), log_now)
              /\ UNCHANGED error_log_timestamps
         ELSE /\ error_log_timestamps' =
                   CleanUp([error_log_timestamps EXCEPT ![ThreadKey(t)] = log_now],
                           log_now)
              /\ UNCHANGED error_log_cache
    /\ lt_pc' = [lt_pc EXCEPT ![t] = "exit"]
    /\ UNCHANGED <<lt_call, lt_emitted, log_lock, TTLCACHE_AVAILABLE, log_now,
                   log_emitted, log_call, notLog>>

\* the with block is left, by the return of line 63 or 76 or at its end
LogRelease(t) ==
    /\ lt_pc[t] = "exit"
    /\ log_lock' = 0
    /\ lt_pc' = [lt_pc EXCEPT ![t] = "done"]
    /\ UNCHANGED <<lt_call, lt_emitted, logShared, notLog>>

\* ------------------------------------------------------------ pin_to_ipfs
\* everything outside pin_to_ipfs
notPin == <<regVars, siVars, logVars, stakeVars, ksVars, gdVars, txVars, jwtVars, gcVars, ekVars, idsVars, rlVars>>

\* client.py:139-150: Retry(total=retry_count, status_forcelist=[...],
\* allowed_methods=["GET", "POST"], raise_on_status=False, connect=retry_count)
STATUS_FORCELIST == {500, 502, 503, 504}
AdapterRetryCounts == {0, DEFAULT_RETRY_COUNT}

\* what the pinner can answer to one POST request
ConnError == [status |-> 0, body |-> "connection_error"]
PinAnswers ==
    { [status |-> 200, body |-> "cid"],
      [status |-> 200, body |-> "no_cid"],
      [status |-> 200, body |-> "not_json"],
      [status |-> 404, body |-> "none"],
      [status |-> 500, body |-> "none"],
      [status |-> 501, body |-> "none"],
      ConnError }
NoAnswer == [status |-> 0, body |-> "none"]

\* the session's adapter sends the request again: a connection error or a
\* status of the forcelist, while it has retries left
AdapterRetries(a, left) ==
    /\ left > 0
    /\ a = ConnError \/ a.status \in STATUS_FORCELIST

\* client.py:222 and 234: retry_count < max_retries - 1
PinRetriesLeft(rc) == rc < PIN_MAX_RETRIES - 1

\* a 4xx taken for a server error
IsServerErrorFrom400(status) == status >= 400

\* client.py:205, negated: the branch of a 5xx
IsServerError(status) == ~(status < 500)

\* Response.raise_for_status raises HTTPError for 4xx and 5xx
RaiseForStatus(status) == status >= 400

\* any RequestException retried
ExceptRetriesAny(type, status, rc) == PinRetriesLeft(rc)

\* client.py:234: the except clause retries an HTTPError of a 5xx
ExceptRetries(type, status, rc) ==
    type = "HTTPError" /\ status >= 500 /\ PinRetriesLeft(rc)

PinRetry == [kind |-> "retry", type |-> "none", code |-> "none"]

\* client.py:233-246: the except clauses
OnPinException(type, status, rc) ==
    IF type \in {"HTTPError", "ConnectionError", "JSONDecodeError"}
         /\ ExceptRetries(type, status, rc)
      THEN PinRetry
      ELSE Raised("PinningError", type)

\* client.py:204-230: what pin_to_ipfs does with a response
OnPinResponse(a, rc) ==
    IF ~IsServerError(a.status)
      THEN IF RaiseForStatus(a.status)
             THEN OnPinException("HTTPError", a.status, rc)
             ELSE CASE a.body = "cid" -> Returned("str", "cid")
                    [] a.body = "no_cid" -> Raised("PinningError", "missing_cid")
                    [] OTHER -> OnPinException("JSONDecodeError", a.status, rc)
      ELSE IF PinRetriesLeft(rc)
             THEN PinRetry
             ELSE OnPinException("HTTPError", a.status, rc)

\* client.py:196-246: one pass of the while loop after session.post
PinOutcome(a, rc) ==
    IF a = ConnError
      THEN OnPinException("ConnectionError", a.status, rc)
      ELSE OnPinResponse(a, rc)

\* client.py:173-194: pin_to_ipfs is called
PinCall ==
    /\ pin_pc = "idle"
    /\ pin_cfg' \in AdapterRetryCounts
    /\ pin_pc' = "post"
    /\ pin_retry_count' = 0
    /\ pin_left' = 0
    /\ pin_posts' = 0
    /\ pin_wire' = 0
    /\ pin_resp' = NoAnswer
    /\ pin_seen' = {}
    /\ pin_raised' = FALSE
    /\ pin_result' = NoOutcome
    /\ UNCHANGED notPin

\* client.py:198-202: self.session.post(...)
SessionPost ==
    /\ pin_pc = "post"
    /\ pin_posts' = pin_posts + 1
    /\ pin_left' = pin_cfg
    /\ pin_pc' = "wire"
    /\ UNCHANGED <<pin_cfg, pin_retry_count, pin_wire, pin_resp, pin_seen,
                   pin_raised, pin_result, notPin>>

\* the adapter sends one request; the pinner answers; the adapter sends it
\* again or gives the answer to pin_to_ipfs
WireRequest ==
    /\ pin_pc = "wire"
    /\ \E a \in PinAnswers :
        /\ pin_wire' = pin_wire + 1
        /\ pin_seen' = pin_seen \cup {a}
        /\ IF AdapterRetries(a, pin_left)
             THEN /\ pin_left' = pin_left - 1
                  /\ UNCHANGED <<pin_pc, pin_resp, pin_raised>>
             ELSE /\ pin_pc' = "handle"
                  /\ pin_resp' = a
                  /\ pin_raised' = (pin_raised \/ a = ConnError)
                  /\ UNCHANGED pin_left
    /\ UNCHANGED <<pin_cfg, pin_retry_count, pin_posts, pin_result, notPin>>

\* client.py:204-246: the rest of the loop body
PinHandle ==
    /\ pin_pc = "handle"
    /\ LET o == PinOutcome(pin_resp, pin_retry_count) IN
        IF o = PinRetry
          THEN /\ pin_retry_count' = pin_retry_count + 1
               /\ pin_pc' = "post"
               /\ UNCHANGED pin_result
          ELSE /\ pin_result' = o
               /\ pin_pc' = "idle"
               /\ UNCHANGED pin_retry_count
    /\ UNCHANGED <<pin_cfg, pin_left, pin_posts, pin_wire, pin_resp, pin_seen,
                   pin_raised, notPin>>

\* ---------------------------------------------------------- min_stake_wei
\* everything outside the min_stake_wei cache
notStake == <<regVars, siVars, logVars, pinVars, ksVars, gdVars, txVars, jwtVars, gcVars, ekVars, idsVars, rlVars>>

\* the cache serves reads for 15 minutes
MIN_STAKE_TTL == 900

NoValue == -1
\* the values of the contract and of the user
ChainValues == {111, 222}
UserValues == {555}
NoRead == [made |-> FALSE, at |-> 0, called |-> FALSE, first |-> FALSE,
           age |-> 0, value |-> NoValue]

\* an override that disables nothing
OverrideIgnored(override) == FALSE

\* a user-supplied min_stake_wei disables the refresh
OverrideSet(override) == override # NoValue

\* a cache that is never fresh
NeverFresh(cached, ts, now) == FALSE

\* the cache is filled and less than 15 minutes old
Fresh(cached, ts, now) == cached # NoValue /\ now - ts < MIN_STAKE_TTL

\* IntentClient(..., min_stake_wei=None or a value, ...)
StakeConstruct ==
    /\ ~stake_built
    /\ stake_built' = TRUE
    /\ min_stake_override' \in UserValues \cup {NoValue}
    /\ min_stake_wei' = min_stake_override'
    /\ min_stake_wei_timestamp' = stake_now
    /\ UNCHANGED <<stake_now, stake_chain, stake_calls, stake_read, notStake>>

\* a read of client.min_stake_wei
StakeRead ==
    /\ stake_built
    /\ stake_calls < MaxStakeCalls
    /\ LET hit == \/ OverrideSet(min_stake_override)
                  \/ Fresh(min_stake_wei, min_stake_wei_timestamp, stake_now)
       IN  /\ stake_read' = [made |-> TRUE, at |-> stake_now, called |-> ~hit,
                             first |-> (min_stake_wei = NoValue),
                             age |-> stake_now - min_stake_wei_timestamp,
                             value |-> IF hit THEN min_stake_wei ELSE stake_chain]
           /\ IF hit
                THEN UNCHANGED <<min_stake_wei, min_stake_wei_timestamp, stake_calls>>
                ELSE /\ min_stake_wei' = stake_chain
                     /\ min_stake_wei_timestamp' = stake_now
                     /\ stake_calls' = stake_calls + 1
    /\ UNCHANGED <<stake_built, min_stake_override, stake_now, stake_chain, notStake>>

\* time passes
StakeTick ==
    /\ stake_now + StakeStep <= MaxStakeTime
    /\ stake_now' = stake_now + StakeStep
    /\ UNCHANGED <<stake_built, min_stake_override, min_stake_wei,
                   min_stake_wei_timestamp, stake_chain, stake_calls, stake_read,
                   notStake>>

\* the contract's MIN_STAKE_WEI changes
StakeChainChange ==
    /\ stake_chain' \in ChainValues \ {stake_chain}
    /\ UNCHANGED <<stake_built, min_stake_override, min_stake_wei,
                   min_stake_wei_timestamp, stake_now, stake_calls, stake_read,
                   notStake>>

\* --------------------------------------------------------------- KeyStore
\* everything outside the KeyStore
notKs == <<regVars, siVars, logVars, pinVars, stakeVars, gdVars, txVars, jwtVars, gcVars, ekVars, idsVars, rlVars>>

\* the threads and processes that use one store path
KsUsers == Threads

\* key_store.py:26-44: KeyStore(store_path)
KsConstruct(a) ==
    /\ ks_pc[a] = "idle"
    /\ ~ks_built[a]
    /\ ks_pc' = [ks_pc EXCEPT ![a] = "ensure"]
    /\ UNCHANGED <<ks_built, ks_lock, ks_exists, ks_failed, notKs>>

\* key_store.py:59-60: _ensure_dir finds the file or opens it for writing
KsEnsure(a) ==
    /\ ks_pc[a] = "ensure"
    /\ IF ks_exists
         THEN /\ ks_pc' = [ks_pc EXCEPT ![a] = "idle"]
              /\ ks_built' = [ks_built EXCEPT ![a] = TRUE]
         ELSE /\ ks_pc' = [ks_pc EXCEPT ![a] = "creating"]
              /\ UNCHANGED ks_built
    /\ UNCHANGED <<ks_lock, ks_exists, ks_failed, notKs>>

\* key_store.py:60-65: _ensure_dir writes the empty store
KsCreate(a) ==
    /\ ks_pc[a] = "creating"
    /\ ks_exists' = TRUE
    /\ ks_built' = [ks_built EXCEPT ![a] = TRUE]
    /\ ks_pc' = [ks_pc EXCEPT ![a] = "idle"]
    /\ UNCHANGED <<ks_lock, ks_failed, notKs>>

\* key_store.py:77 and 92: read() or write(data) is called
KsCall(a) ==
    /\ ks_pc[a] = "idle"
    /\ ks_built[a]
    /\ \E op \in {"lock_read", "lock_write"} : ks_pc' = [ks_pc EXCEPT ![a] = op]
    /\ ks_failed' = [ks_failed EXCEPT ![a] = FALSE]
    /\ UNCHANGED <<ks_built, ks_lock, ks_exists, notKs>>

\* key_store.py:84 and 99: portalocker.Lock(..., timeout=10) is entered
KsLock(a) ==
    /\ ks_pc[a] \in {"lock_read", "lock_write"}
    /\ ks_lock = 0
    /\ ks_lock' = a
    /\ ks_pc' = [ks_pc EXCEPT ![a] = IF ks_pc[a] = "lock_read" THEN "reading"
                                                               ELSE "writing"]
    /\ UNCHANGED <<ks_built, ks_exists, ks_failed, notKs>>

\* key_store.py:84 and 99: the lock is held for the 10 seconds, Lock raises
KsLockTimeout(a) ==
    /\ ks_pc[a] \in {"lock_read", "lock_write"}
    /\ ks_lock # 0
    /\ ks_failed' = [ks_failed EXCEPT ![a] = TRUE]
    /\ ks_pc' = [ks_pc EXCEPT ![a] = "idle"]
    /\ UNCHANGED <<ks_built, ks_lock, ks_exists, notKs>>

\* key_store.py:85-90 and 100-101: the file is read or written, the lock released
KsAccess(a) ==
    /\ ks_pc[a] \in {"reading", "writing"}
    /\ ks_exists' = (ks_exists \/ ks_pc[a] = "writing")
    /\ ks_lock' = 0
    /\ ks_pc' = [ks_pc EXCEPT ![a] = "idle"]
    /\ UNCHANGED <<ks_built, ks_failed, notKs>>

\* ------------------------------------------------------ get_or_create_did
\* everything outside get_or_create_did
notGd == <<regVars, siVars, logVars, pinVars, stakeVars, ksVars, txVars, jwtVars, gcVars, ekVars, idsVars, rlVars>>

\* created_at strings, as sequences of characters; <<>> is "" and the absent field
Stamps == {<<>>, <<1>>, <<1, 0>>}

\* the entries a store can hold: with metadata (created_at in it or not), or
\* in the old format with the created_at at the top
Entries ==
    [hasMeta : {TRUE}, meta : Stamps, direct : {<<>>}]
        \cup [hasMeta : {FALSE}, meta : {<<>>}, direct : Stamps]

\* __init__.py:179-183: the sort key of an entry
SortKey(e) == IF e.hasMeta THEN e.meta ELSE e.direct

\* Python's < on strings
RECURSIVE StrLess(_, _)
StrLess(a, b) ==
    IF a = <<>> THEN b # <<>>
    ELSE IF b = <<>> THEN FALSE
    ELSE IF a[1] # b[1] THEN a[1] < b[1]
    ELSE StrLess(Tail(a), Tail(b))

\* one step of a stable descending sort: index x goes behind every index
\* whose key is not less than its own
RECURSIVE InsertDescending(_, _, _)
InsertDescending(ids, sorted, x) ==
    IF sorted = <<>> THEN <<x>>
    ELSE IF StrLess(SortKey(ids[Head(sorted)]), SortKey(ids[x]))
           THEN <<x>> \o sorted
           ELSE <<Head(sorted)>> \o InsertDescending(ids, Tail(sorted), x)

\* __init__.py:175-185: sorted(identities, key=..., reverse=True), as indices;
\* reverse=True keeps the original order of entries with equal keys
RECURSIVE SortedDescending(_, _)
SortedDescending(ids, n) ==
    IF n = 0 THEN <<>>
    ELSE InsertDescending(ids, SortedDescending(ids, n - 1), n)

NoPick == [kind |-> "none", index |-> 0]

\* __init__.py:167-223: get_or_create_did(auto)
GetOrCreateDidResult(ids, auto) ==
    IF ids # <<>>
      THEN [kind |-> "identity", index |-> Head(SortedDescending(ids, Len(ids)))]
      ELSE IF ~auto
             THEN [kind |-> "ValueError", index |-> 0]
             ELSE [kind |-> "created", index |-> 1]

\* key_store.py:103-120: add_identity stores one more entry
AddIdentity ==
    /\ Len(gd_identities) < MaxIdentities
    /\ \E e \in Entries : gd_identities' = Append(gd_identities, e)
    /\ gd_result' = NoPick
    /\ UNCHANGED notGd

\* __init__.py:153-223: get_or_create_did(auto); a created identity is stored
\* with its created_at in the metadata
GetOrCreateDid ==
    /\ \E auto \in BOOLEAN :
        /\ gd_result' = GetOrCreateDidResult(gd_identities, auto)
        /\ gd_identities' =
              IF gd_result'.kind = "created"
                THEN <<[hasMeta |-> TRUE, meta |-> <<1>>, direct |-> <<>>]>>
                ELSE gd_identities
    /\ UNCHANGED notGd

\* ------------------------------------------------------ TxReceipt.validate
\* everything outside the receipt
notTx == <<regVars, siVars, logVars, pinVars, stakeVars, ksVars, gdVars, jwtVars, gcVars, ekVars, idsVars, rlVars>>

\* transport.py:102-114: the receipts that can be built
TxReceipts ==
    [hash : {"", "0xabc"}, gas_used : {0, 21000}, success : BOOLEAN,
     error : {"", "failed"}, error_code : WireCodes]

\* transport.py:110-114: TxReceipt()
DefaultTxReceipt ==
    [hash |-> "", gas_used |-> 0, success |-> FALSE, error |-> "",
     error_code |-> "UNKNOWN_UNSPECIFIED"]

\* a check that finds every receipt consistent
InconsistentNever(receipt) == FALSE

\* transport.py:126: receipt.success and receipt.error_code != "UNKNOWN_UNSPECIFIED"
Inconsistent(receipt) ==
    receipt.success /\ receipt.error_code # "UNKNOWN_UNSPECIFIED"

\* transport.py:116-128: TxReceipt.validate returns True or raises ValueError
Validate(receipt) ==
    IF Inconsistent(receipt) THEN Raised("ValueError", receipt.error_code)
                             ELSE Returned("bool", "True")

\* a receipt is built
MakeTxReceipt ==
    /\ tx_receipt' \in TxReceipts
    /\ tx_valid' = NoOutcome
    /\ UNCHANGED notTx

\* TxReceipt.validate(receipt)
ValidateTxReceipt ==
    /\ tx_valid' = Validate(tx_receipt)
    /\ UNCHANGED <<tx_receipt, notTx>>

\* ------------------------------------------------------- verify_jwt_token
\* everything outside verify_jwt_token
notJwt == <<regVars, siVars, logVars, pinVars, stakeVars, ksVars, gdVars, txVars, gcVars, ekVars, idsVars, rlVars>>

\* header "alg" values of a token; "" also stands for a header without alg
JwtAlgs == {"none", "None", "NONE", "", "HS256", "hs256", "RS256"}

\* str.lower() on these values
Lower(a) ==
    CASE a \in {"none", "None", "NONE"} -> "none"
      [] a \in {"HS256", "hs256"} -> "hs256"
      [] a = "RS256" -> "rs256"
      [] OTHER -> a

\* jwt_util.py:103-111: the default allowed_algorithms of a tier
DefaultAlgorithms(tier) ==
    IF tier = "production" THEN {"HS256"}
    ELSE {"HS256", "HS384", "HS512", "RS256", "RS384", "RS512",
          "ES256", "ES384", "ES512"}

JwtInputs ==
    [token : {"", "jwt"}, header_ok : BOOLEAN, alg : JwtAlgs,
     signed : BOOLEAN, expired : BOOLEAN,
     env_tier : {"production", "test", "development"},
     jwt_secret : BOOLEAN, custom_algorithms : BOOLEAN]

\* a comparison that forgets lower()
IsSafeCaseSensitive(algorithm) == algorithm \notin {"none", ""}

\* jwt_util.py:56-66: is_safe_jwt_algorithm
IsSafeJwtAlgorithm(algorithm) == Lower(algorithm) \notin {"none", ""}

JwtNull(n) == [result |-> "null", decodes |-> n]
JwtClaims(n) == [result |-> "claims", decodes |-> n]

\* jwt.decode(token, key, algorithms=..., verify_signature=True, verify_exp=True)
\* succeeds for a signed, unexpired token whose alg is among the algorithms
VerifiedDecodeOk(in, algorithms) ==
    in.signed /\ ~in.expired /\ in.alg \in algorithms

\* jwt_util.py:94-191: verify_jwt_token
VerifyJwtToken(in) ==
    LET allowed == IF in.custom_algorithms THEN JwtAlgs
                   ELSE DefaultAlgorithms(in.env_tier)
    IN
    IF in.token = "" THEN JwtNull(0)
    ELSE IF ~in.header_ok THEN JwtNull(0)
    ELSE IF ~IsSafeJwtAlgorithm(in.alg) THEN JwtNull(0)
    ELSE IF in.alg \notin allowed THEN JwtNull(0)
    ELSE IF in.env_tier = "production"
      THEN IF ~in.jwt_secret THEN JwtNull(0)
           ELSE IF VerifiedDecodeOk(in, allowed) THEN JwtClaims(1) ELSE JwtNull(1)
    ELSE IF in.env_tier = "test"
      THEN IF Lower(in.alg) = "hs256" /\ in.jwt_secret
             THEN IF VerifiedDecodeOk(in, {in.alg}) THEN JwtClaims(1)
                  ELSE IF in.expired THEN JwtNull(2) ELSE JwtClaims(2)
             ELSE IF in.expired THEN JwtNull(1) ELSE JwtClaims(1)
    ELSE JwtClaims(1)

\* before the call
NoJwtCall ==
    [token |-> "no call", header_ok |-> FALSE, alg |-> "", signed |-> FALSE,
     expired |-> FALSE, env_tier |-> "production",
     jwt_secret |-> FALSE, custom_algorithms |-> FALSE]

\* one call of verify_jwt_token(token, env_tier, jwt_secret, allowed_algorithms);
\* the function keeps no state, so one call per behaviour covers every call
VerifyJwtCall ==
    /\ jwt_in = NoJwtCall
    /\ \E in \in JwtInputs :
        /\ jwt_in' = in
        /\ jwt_out' = VerifyJwtToken(in)
    /\ UNCHANGED notJwt

\* ----------------------------------------------------- get_gateway_client
\* everything outside get_gateway_client
notGc == <<regVars, siVars, logVars, pinVars, stakeVars, ksVars, gdVars, txVars, jwtVars, ekVars, idsVars, rlVars>>

GatewayUrls == {"url1", "url2"}
ApiKeys == {"key1", "key2"}

\* no client: a cache miss, or nothing returned yet
NoClient == [url |-> "none", serial |-> 0, api_key |-> "none"]

\* gateway/client.py:314: GatewayClient(gateway_url, api_key) keeps api_key;
\* serial tells apart the instances constructed for one url
GatewayClient(url, api_key, serial) ==
    [url |-> url, serial |-> serial, api_key |-> api_key]

\* a cache without its mutex
CacheLockFreeAlways(t) == TRUE

\* gateway/__init__.py:27,41: threading.RLock is free, or held by the caller
CacheLockFree(t) == gc_lock \in {0, t}

\* gateway/__init__.py:30: a thread calls get_gateway_client(gateway_url, api_key)
GcCall(t) ==
    /\ gc_pc[t] \in {"idle", "done"}
    /\ \E u \in GatewayUrls, k \in ApiKeys :
        gc_arg' = [gc_arg EXCEPT ![t] = [url |-> u, api_key |-> k]]
    /\ gc_ret' = [gc_ret EXCEPT ![t] = NoClient]
    /\ gc_pc' = [gc_pc EXCEPT ![t] = "acquire"]
    /\ UNCHANGED <<gc_cache, gc_lock, gc_created>>
    /\ UNCHANGED notGc

\* gateway/__init__.py:41: with _cache_lock
GcAcquire(t) ==
    /\ gc_pc[t] = "acquire"
    /\ CacheLockFree(t)
    /\ gc_lock' = t
    /\ gc_pc' = [gc_pc EXCEPT ![t] = "check"]
    /\ UNCHANGED <<gc_cache, gc_created, gc_arg, gc_ret>>
    /\ UNCHANGED notGc

\* gateway/__init__.py:42: if cache_key not in _gateway_client_cache
GcCheck(t) ==
    /\ gc_pc[t] = "check"
    /\ gc_pc' = [gc_pc EXCEPT ![t] =
                    IF gc_cache[gc_arg[t].url] = NoClient THEN "create" ELSE "return"]
    /\ UNCHANGED <<gc_cache, gc_lock, gc_created, gc_arg, gc_ret>>
    /\ UNCHANGED notGc

\* gateway/__init__.py:43-44: construct the client and store it under the url
GcCreate(t) ==
    /\ gc_pc[t] = "create"
    /\ LET u == gc_arg[t].url IN
        /\ gc_created' = [gc_created EXCEPT ![u] = @ + 1]
        /\ gc_cache' = [gc_cache EXCEPT
                           ![u] = GatewayClient(u, gc_arg[t].api_key, gc_created[u] + 1)]
    /\ gc_pc' = [gc_pc EXCEPT ![t] = "return"]
    /\ UNCHANGED <<gc_lock, gc_arg, gc_ret>>
    /\ UNCHANGED notGc

\* gateway/__init__.py:45: return the cached client, leaving the with block
GcReturn(t) ==
    /\ gc_pc[t] = "return"
    /\ gc_ret' = [gc_ret EXCEPT ![t] = gc_cache[gc_arg[t].url]]
    /\ gc_lock' = IF gc_lock = t THEN 0 ELSE gc_lock
    /\ gc_pc' = [gc_pc EXCEPT ![t] = "done"]
    /\ UNCHANGED <<gc_cache, gc_created, gc_arg>>
    /\ UNCHANGED notGc

\* ----------------------------------------------------- get_encryption_key
\* everything outside get_encryption_key
notEk == <<regVars, siVars, logVars, pinVars, stakeVars, ksVars, gdVars, txVars, jwtVars, gcVars, idsVars, rlVars>>

\* the most keys generated in one behaviour
MaxKeys == 3

\* None
NoKey == [src |-> "none", n |-> 0]
\* the key stored in the OS keyring before the process started
KeyringKey == [src |-> "keyring", n |-> 0]
\* base64.b64decode(INTENT_MASTER_KEY)
EnvKey == [src |-> "env", n |-> 0]
\* the n-th result of nacl.utils.random(KEY_SIZE): every one differs
GeneratedKey(n) == [src |-> "generated", n |-> n]

\* the process environment: CI = "true" or not; INTENT_MASTER_KEY unset, valid
\* base64 or not; the keyring package absent, working, or raising on every call;
\* whether the OS keyring holds a key. started is false before the process runs.
EkEnvs ==
    [started : {TRUE}, ci : BOOLEAN, master_key : {"unset", "valid", "invalid"},
     keyring : {"absent", "working", "failing"}]

EkNotStarted ==
    [started |-> FALSE, ci |-> FALSE, master_key |-> "unset", keyring |-> "absent"]

\* the process starts: its environment and the content of the OS keyring
EkStart ==
    /\ ~ek_env.started
    /\ \E e \in EkEnvs : ek_env' = e
    /\ \E k \in {NoKey, KeyringKey} : ek_keyring' = k
    /\ UNCHANGED <<ek_cache, ek_generated, ek_pc, ek_key, ek_out, ek_returned, ek_cached>>
    /\ UNCHANGED notEk

\* crypto.py:84-89: return the cached key if there is one
EkCall(t) ==
    /\ ek_env.started
    /\ ek_pc[t] \in {"idle", "done"}
    /\ IF ek_cache # NoKey
         THEN /\ ek_pc' = [ek_pc EXCEPT ![t] = "done"]
              /\ ek_out' = [ek_out EXCEPT ![t] = "key"]
              /\ ek_key' = [ek_key EXCEPT ![t] = ek_cache]
              /\ ek_returned' = ek_returned \cup {ek_cache}
         ELSE /\ ek_pc' = [ek_pc EXCEPT ![t] = "lookup"]
              /\ ek_out' = [ek_out EXCEPT ![t] = "none"]
              /\ ek_key' = [ek_key EXCEPT ![t] = NoKey]
              /\ UNCHANGED ek_returned
    /\ UNCHANGED <<ek_env, ek_keyring, ek_cache, ek_generated, ek_cached>>
    /\ UNCHANGED notEk

\* crypto.py:92-98: keyring.get_password, every exception swallowed
KeyringLookup == IF ek_env.keyring = "working" THEN ek_keyring ELSE NoKey

\* crypto.py:101-107: INTENT_MASTER_KEY, only without a key and with CI = "true"
EnvLookup(key) ==
    IF key = NoKey /\ ek_env.ci /\ ek_env.master_key = "valid" THEN EnvKey ELSE key

\* crypto.py:92-110: the keyring, then the environment
EkLookup(t) ==
    /\ ek_pc[t] = "lookup"
    /\ LET key == EnvLookup(KeyringLookup) IN
        /\ ek_key' = [ek_key EXCEPT ![t] = key]
        /\ ek_pc' = [ek_pc EXCEPT ![t] = IF key = NoKey THEN "generate" ELSE "cache"]
    /\ UNCHANGED <<ek_out, ek_env, ek_keyring, ek_cache, ek_generated, ek_returned, ek_cached>>
    /\ UNCHANGED notEk

\* crypto.py:112: CI = "true", or "keyring" in sys.modules (the import at line 93
\* succeeded)
MayGenerate == ek_env.ci \/ ek_env.keyring # "absent"

\* crypto.py:110-133: no key yet: generate one and store it in the keyring
EkGenerate(t) ==
    /\ ek_pc[t] = "generate"
    /\ IF ~MayGenerate
         THEN \* lines 129-133: ValueError
              /\ ek_pc' = [ek_pc EXCEPT ![t] = "done"]
              /\ ek_out' = [ek_out EXCEPT ![t] = "error"]
              /\ UNCHANGED <<ek_key, ek_keyring, ek_generated>>
         ELSE /\ ek_generated < MaxKeys
              /\ ek_generated' = ek_generated + 1
              /\ ek_key' = [ek_key EXCEPT ![t] = GeneratedKey(ek_generated + 1)]
              /\ IF ek_env.keyring = "working"
                   THEN \* lines 115-120: set_password
                        /\ ek_keyring' = GeneratedKey(ek_generated + 1)
                        /\ ek_pc' = [ek_pc EXCEPT ![t] = "cache"]
                        /\ UNCHANGED ek_out
                   ELSE IF ~ek_env.ci
                   THEN \* lines 122-125: ValueError
                        /\ ek_pc' = [ek_pc EXCEPT ![t] = "done"]
                        /\ ek_out' = [ek_out EXCEPT ![t] = "error"]
                        /\ UNCHANGED ek_keyring
                   ELSE \* lines 126-128: a warning
                        /\ ek_pc' = [ek_pc EXCEPT ![t] = "cache"]
                        /\ UNCHANGED <<ek_out, ek_keyring>>
    /\ UNCHANGED <<ek_env, ek_cache, ek_returned, ek_cached>>
    /\ UNCHANGED notEk

\* crypto.py:136-137: cache the key and return it
EkCache(t) ==
    /\ ek_pc[t] = "cache"
    /\ ek_cache' = ek_key[t]
    /\ ek_cached' = ek_cached \cup {ek_key[t]}
    /\ ek_returned' = ek_returned \cup {ek_key[t]}
    /\ ek_out' = [ek_out EXCEPT ![t] = "key"]
    /\ ek_pc' = [ek_pc EXCEPT ![t] = "done"]
    /\ UNCHANGED <<ek_env, ek_keyring, ek_generated, ek_key>>
    /\ UNCHANGED notEk

\* --------------------------- add_identity and get_or_create_did, concurrent
\* everything outside the callers of the key store
notIds == <<regVars, siVars, logVars, pinVars, stakeVars, ksVars, gdVars, txVars, jwtVars, gcVars, ekVars, rlVars>>

\* the most identities generated in one behaviour
MaxDids == 3

\* DIDs are numbered in the order of their generation, which is the order of
\* their created_at
NoDid == 0

MaxOf(S) == CHOOSE x \in S : \A y \in S : y <= x

\* key_store.py:77-90: read() returns the content of the file, under the lock
KsRead(file) == file

\* a caller (a thread, or a process with its own _key_store on the same path)
\* calls get_or_create_did(auto) or KeyStore.add_identity(did, ...) with a new DID
IdsCall(a) ==
    /\ ids_pc[a] \in {"idle", "done"}
    /\ \E m \in {"auto", "not auto", "add"} :
        /\ ids_mode' = [ids_mode EXCEPT ![a] = m]
        /\ IF m = "add"
             THEN /\ ids_created < MaxDids
                  /\ ids_created' = ids_created + 1
                  /\ ids_did' = [ids_did EXCEPT ![a] = ids_created + 1]
                  /\ ids_pc' = [ids_pc EXCEPT ![a] = "add_read"]
                  /\ ids_direct' = TRUE
             ELSE /\ ids_did' = [ids_did EXCEPT ![a] = NoDid]
                  /\ ids_pc' = [ids_pc EXCEPT ![a] = "list"]
                  /\ UNCHANGED <<ids_created, ids_direct>>
    /\ UNCHANGED <<ids_store, ids_local, ids_added, ids_returned>>
    /\ UNCHANGED notIds

\* identity/__init__.py:168-203: list_identities; with identities, return the one
\* created last; without, raise when auto is false
IdsList(a) ==
    /\ ids_pc[a] = "list"
    /\ LET identities == KsRead(ids_store) IN
        IF identities # {}
          THEN /\ ids_did' = [ids_did EXCEPT ![a] = MaxOf(identities)]
               /\ ids_returned' = ids_returned \cup {MaxOf(identities)}
               /\ ids_pc' = [ids_pc EXCEPT ![a] = "done"]
          ELSE /\ ids_pc' = [ids_pc EXCEPT ![a] =
                                IF ids_mode[a] = "auto" THEN "create" ELSE "done"]
               /\ UNCHANGED <<ids_did, ids_returned>>
    /\ UNCHANGED <<ids_store, ids_mode, ids_local, ids_created, ids_added, ids_direct>>
    /\ UNCHANGED notIds

\* identity/__init__.py:205-216: _create_identity_data, encrypt_key_data
IdsCreate(a) ==
    /\ ids_pc[a] = "create"
    /\ ids_created < MaxDids
    /\ ids_created' = ids_created + 1
    /\ ids_did' = [ids_did EXCEPT ![a] = ids_created + 1]
    /\ ids_pc' = [ids_pc EXCEPT ![a] = "add_read"]
    /\ UNCHANGED <<ids_store, ids_mode, ids_local, ids_added, ids_returned, ids_direct>>
    /\ UNCHANGED notIds

\* key_store.py:112: add_identity: store = self.read()
IdsAddRead(a) ==
    /\ ids_pc[a] = "add_read"
    /\ ids_local' = [ids_local EXCEPT ![a] = KsRead(ids_store)]
    /\ ids_pc' = [ids_pc EXCEPT ![a] = "add_write"]
    /\ UNCHANGED <<ids_store, ids_mode, ids_did, ids_created, ids_added,
                   ids_returned, ids_direct>>
    /\ UNCHANGED notIds

\* key_store.py:114-120: add_identity: store["identities"][did] = entry and
\* self.write(store); get_or_create_did then returns the identity (218-226)
IdsAddWrite(a) ==
    /\ ids_pc[a] = "add_write"
    /\ ids_store' = ids_local[a] \cup {ids_did[a]}
    /\ ids_added' = ids_added \cup {ids_did[a]}
    /\ ids_returned' = IF ids_mode[a] = "auto" THEN ids_returned \cup {ids_did[a]}
                       ELSE ids_returned
    /\ ids_local' = [ids_local EXCEPT ![a] = {}]
    /\ ids_pc' = [ids_pc EXCEPT ![a] = "done"]
    /\ UNCHANGED <<ids_mode, ids_did, ids_created, ids_direct>>
    /\ UNCHANGED notIds

\* ------------------------------- register_did under the redis lock, timed
\* everything outside the timed register_did
notRl == <<regVars, siVars, logVars, pinVars, stakeVars, ksVars, gdVars, txVars, jwtVars, gcVars, ekVars, idsVars>>

\* gateway/client.py:317: the default request timeout, in milliseconds
DEFAULT_TIMEOUT == 5000

\* registration.py:153: the expiry of the redis lock, in milliseconds
REDIS_LOCK_TIMEOUT == 30000

\* how long one RegisterDid request takes: at most the per-attempt timeout
AttemptTimes == {0, DEFAULT_TIMEOUT \div 2, DEFAULT_TIMEOUT}

\* a loop that runs one attempt more
WithinRetriesOneMore(rc, mr) == rc <= mr + 1

\* gateway/client.py:696: while retry_count <= max_retries
WithinRetries(rc, mr) == rc <= mr

\* registration.py:288 and 309: the redis lock is acquired and register_did is
\* called with its defaults
RlStart ==
    /\ rl_pc = "idle"
    /\ rl_pc' = "attempt"
    /\ rl_retry' = 0
    /\ rl_elapsed' = 0
    /\ UNCHANGED notRl

\* gateway/client.py:706-880: one request; it ends the call, or counts a retry
RlAttempt ==
    /\ rl_pc = "attempt"
    /\ \E d \in AttemptTimes, again \in BOOLEAN :
        /\ rl_elapsed' = rl_elapsed + d
        /\ IF again
             THEN /\ rl_retry' = rl_retry + 1
                  /\ rl_pc' = IF WithinRetries(rl_retry + 1, DEFAULT_MAX_RETRIES)
                              THEN "sleep" ELSE "done"
             ELSE /\ rl_pc' = "done"
                  /\ UNCHANGED rl_retry
    /\ UNCHANGED notRl

\* gateway/client.py:698-704: the backoff sleep with up to 10% jitter
RlSleep ==
    /\ rl_pc = "sleep"
    /\ \E j \in JitterSamples :
        LET delay == DEFAULT_BACKOFF_BASE * 2 ^ (rl_retry - 1) IN
        rl_elapsed' = rl_elapsed + delay + (delay * j) \div 100
    /\ rl_pc' = "attempt"
    /\ UNCHANGED rl_retry
    /\ UNCHANGED notRl

\* registration.py:328-332: register_did has ended, the lock is released
RlRelease ==
    /\ rl_pc = "done"
    /\ rl_pc' = "idle"
    /\ UNCHANGED <<rl_retry, rl_elapsed>>
    /\ UNCHANGED notRl

\* ------------------------------------------------------------ specifications
InitVars ==
    /\ pc = [t \in Threads |-> "idle"]
    /\ force = [t \in Threads |-> FALSE]
    /\ lock = [t \in Threads |-> "unset"]
    /\ acquired = [t \in Threads |-> FALSE]
    /\ waited = [t \in Threads |-> 0]
    /\ warned = [t \in Threads |-> FALSE]
    /\ retry_count = [t \in Threads |-> 0]
    /\ max_retries = [t \in Threads |-> 0]
    /\ attempts = [t \in Threads |-> 0]
    /\ last_error = [t \in Threads |-> NoOutcome]
    /\ rd = [t \in Threads |-> NoOutcome]
    /\ result = [t \in Threads |-> NoOutcome]
    /\ is_registered = [p \in Procs |-> FALSE]
    /\ lockHolders = {}
    /\ gwRegistered \in BOOLEAN
    /\ crossProcess \in BOOLEAN
    /\ issued = 0
    /\ overlap = "none"
    /\ lastResp = [t \in Threads |-> NoResp]
    /\ onlyUnavail = [t \in Threads |-> TRUE]
    /\ backoff_base = DEFAULT_BACKOFF_BASE
    /\ sleeps = <<>>
    /\ si_pc = "idle"
    /\ si_in = NoCall
    /\ si_trace = <<>>
    /\ si_result = NoOutcome
    /\ si_warned = FALSE
    /\ si_reg = NoOutcome
    /\ error_log_cache = <<>>
    /\ error_log_timestamps = [k \in Keys |-> NoTime]
    /\ log_now = 0
    /\ log_emitted = [c \in LogCalls |-> NoTime]
    /\ log_call = NoLogCall
    /\ lt_pc = [t \in Threads |-> "idle"]
    /\ lt_call = [t \in Threads |-> NoThreadCall]
    /\ lt_emitted = [t \in Threads |-> FALSE]
    /\ log_lock = 0
    /\ pin_pc = "idle"
    /\ pin_cfg = DEFAULT_RETRY_COUNT
    /\ pin_retry_count = 0
    /\ pin_left = 0
    /\ pin_posts = 0
    /\ pin_wire = 0
    /\ pin_resp = NoAnswer
    /\ pin_seen = {}
    /\ pin_raised = FALSE
    /\ pin_result = NoOutcome
    /\ stake_built = FALSE
    /\ min_stake_override = NoValue
    /\ min_stake_wei = NoValue
    /\ min_stake_wei_timestamp = 0
    /\ stake_now = 0
    /\ stake_chain = 111
    /\ stake_calls = 0
    /\ stake_read = NoRead
    /\ ks_pc = [a \in Threads |-> "idle"]
    /\ ks_built = [a \in Threads |-> FALSE]
    /\ ks_lock = 0
    /\ ks_exists = FALSE
    /\ ks_failed = [a \in Threads |-> FALSE]
    /\ gd_identities = <<>>
    /\ gd_result = NoPick
    /\ tx_receipt = DefaultTxReceipt
    /\ tx_valid = NoOutcome
    /\ jwt_in = NoJwtCall
    /\ jwt_out = JwtNull(0)
    /\ gc_cache = [u \in GatewayUrls |-> NoClient]
    /\ gc_lock = 0
    /\ gc_created = [u \in GatewayUrls |-> 0]
    /\ gc_pc = [t \in Threads |-> "idle"]
    /\ gc_arg = [t \in Threads |-> [url |-> "url1", api_key |-> "key1"]]
    /\ gc_ret = [t \in Threads |-> NoClient]
    /\ ek_env = EkNotStarted
    /\ ek_keyring = NoKey
    /\ ek_cache = NoKey
    /\ ek_generated = 0
    /\ ek_pc = [t \in Threads |-> "idle"]
    /\ ek_key = [t \in Threads |-> NoKey]
    /\ ek_out = [t \in Threads |-> "none"]
    /\ ek_returned = {}
    /\ ek_cached = {}
    /\ ids_store = {}
    /\ ids_pc = [a \in Threads |-> "idle"]
    /\ ids_mode = [a \in Threads |-> "auto"]
    /\ ids_did = [a \in Threads |-> NoDid]
    /\ ids_local = [a \in Threads |-> {}]
    /\ ids_created = 0
    /\ ids_added = {}
    /\ ids_returned = {}
    /\ ids_direct = FALSE
    /\ rl_pc = "idle"
    /\ rl_retry = 0
    /\ rl_elapsed = 0

\* ensure_registered runs with grpc installed (client.py:48)
Init == InitVars /\ GRPC_AVAILABLE = TRUE /\ TTLCACHE_AVAILABLE = TRUE

Next ==
    \E t \in Threads :
        \/ Call(t)
        \/ LockAcquire(t)
        \/ LockWait(t)
        \/ LockTimeout(t)
        \/ LockError(t)
        \/ Recheck(t)
        \/ RegisterCall(t)
        \/ Complete(t)

Spec == Init /\ [][Next]_vars

\* the caller of the stepwise register_did
RDCaller == 1

NextRD == CallRegisterDid(RDCaller) \/ RegisterAttempt(RDCaller)

\* register_did runs with or without grpc (client.py:48 and 69)
InitRD == InitVars /\ GRPC_AVAILABLE \in BOOLEAN /\ TTLCACHE_AVAILABLE = TRUE

SpecRD == InitRD /\ [][NextRD]_vars

NextSI ==
    \/ SendIntent
    \/ ValidatePayload
    \/ EnsureRegisteredStep
    \/ ResolveDid
    \/ PinPayload
    \/ CidToBytes
    \/ NormaliseHash
    \/ BuildTransaction
    \/ SignTransaction
    \/ SendTransaction
    \/ AwaitReceipt

SpecSI == Init /\ [][NextSI]_vars

NextLog ==
    \/ \E c \in LogCalls, interval \in Intervals : RateLimitedLog(c, interval)
    \/ Tick

\* rate_limited_log runs with or without cachetools (_rate_limited_log.py:13-17)
InitLog == InitVars /\ GRPC_AVAILABLE = TRUE /\ TTLCACHE_AVAILABLE \in BOOLEAN

SpecLog == InitLog /\ [][NextLog]_vars

NextLogThreads ==
    \E t \in Threads :
        \/ LogEnter(t)
        \/ LogAcquire(t)
        \/ LogCheck(t)
        \/ LogEmit(t)
        \/ LogStore(t)
        \/ LogRelease(t)

NextPin == PinCall \/ SessionPost \/ WireRequest \/ PinHandle

SpecPin == Init /\ [][NextPin]_vars

NextStake == StakeConstruct \/ StakeRead \/ StakeTick \/ StakeChainChange

SpecStake == Init /\ [][NextStake]_vars

NextKs ==
    \E a \in KsUsers :
        \/ KsConstruct(a)
        \/ KsEnsure(a)
        \/ KsCreate(a)
        \/ KsCall(a)
        \/ KsLock(a)
        \/ KsLockTimeout(a)
        \/ KsAccess(a)

SpecKs == Init /\ [][NextKs]_vars

NextGd == AddIdentity \/ GetOrCreateDid

SpecGd == Init /\ [][NextGd]_vars

NextTx == MakeTxReceipt \/ ValidateTxReceipt

SpecTx == Init /\ [][NextTx]_vars

NextJwt == VerifyJwtCall

SpecJwt == Init /\ [][NextJwt]_vars

NextGc ==
    \E t \in Threads :
        \/ GcCall(t)
        \/ GcAcquire(t)
        \/ GcCheck(t)
        \/ GcCreate(t)
        \/ GcReturn(t)

SpecGc == Init /\ [][NextGc]_vars

NextEk ==
    \/ EkStart
    \/ \E t \in Threads :
        \/ EkCall(t)
        \/ EkLookup(t)
        \/ EkGenerate(t)
        \/ EkCache(t)

SpecEk == Init /\ [][NextEk]_vars

NextIds ==
    \E a \in Threads :
        \/ IdsCall(a)
        \/ IdsList(a)
        \/ IdsCreate(a)
        \/ IdsAddRead(a)
        \/ IdsAddWrite(a)

SpecIds == Init /\ [][NextIds]_vars

\* the callers of ensure_registered under fair scheduling: a thread of the
\* first process and the thread that may be in a second process
LiveCallers == {1, NumThreads}

NextLive ==
    \E t \in LiveCallers :
        \/ Call(t)
        \/ LockAcquire(t)
        \/ LockWait(t)
        \/ LockTimeout(t)
        \/ LockError(t)
        \/ Recheck(t)
        \/ RegisterCall(t)
        \/ Complete(t)

\* ensure_registered() (force=False) is called and gets as far as the lock
CallRepeated(t) == Call(t) /\ ~force'[t] /\ pc'[t] # "idle"

\* the Gateway accepts the registration that register_did sends
GatewayAccepts(t) == RegisterCall(t) /\ gwRegistered' /\ rd'[t].kind = "return"

\* a thread that is inside ensure_registered goes on (acquire returns or times
\* out after LOCK_TIMEOUT, register_did returns or raises); the caller calls
\* again and again; of the registrations sent again and again, one is accepted
LiveFairness ==
    \A t \in LiveCallers :
        /\ WF_vars(CallRepeated(t))
        /\ WF_vars(LockAcquire(t) \/ LockWait(t) \/ LockTimeout(t) \/ LockError(t))
        /\ WF_vars(Recheck(t))
        /\ WF_vars(RegisterCall(t))
        /\ WF_vars(Complete(t))
        /\ SF_vars(GatewayAccepts(t))

SpecLive == Init /\ [][NextLive]_vars /\ LiveFairness

NextRl == RlStart \/ RlAttempt \/ RlSleep \/ RlRelease

SpecRl == Init /\ [][NextRl]_vars

\* threads calling rate_limited_log at one instant, the map empty
SpecLogThreads == InitLog /\ [][NextLogThreads]_vars

\* ------------------------------------------------------------------ claims
InCall(t) == pc[t] \in {"acquire", "recheck", "register", "after_rd"}
PastAcquire(t) == pc[t] \in {"recheck", "register", "after_rd"}
True == Returned("bool", "True")
False == Returned("bool", "False")
NonRetryableCodes == {"INVALID_DID", "INVALID_DOC_CID", "UNAUTHORIZED", "INVALID_PAYLOAD"}

\* C1: over all threads, processes and calls, ensure_registered(force=False)
\* issues register_did at most once for the DID.
C1_AtMostOneRegistration == issued <= 1

\* C2: when all threads called ensure_registered() together on one manager
\* whose flag was false, and the Gateway accepted the registration and every
\* call has returned, exactly one call returned True and the others False.
C2_ExactlyOneTrue ==
    ( /\ overlap = "all"
      /\ \A t \in Threads : pc[t] = "idle" /\ result[t].kind = "return"
      /\ \E t \in Threads : rd[t] = Returned("TxReceipt", "ok") )
    => /\ Cardinality({t \in Threads : result[t] = True}) = 1
       /\ \A t \in Threads : result[t] \in {True, False}

\* C3: the flag of a manager becomes true only in the step that ends a call
\* whose register_did returned a receipt (success or ALREADY_REGISTERED) or
\* raised AlreadyRegisteredError; when register_did raises anything else the
\* call ends raising that same error and the step leaves the flag as it was.
C3_FlagStep ==
    /\ \A p \in Procs :
        is_registered'[p] # is_registered[p] =>
            \E t \in Threads :
                /\ ProcOf(t) = p /\ pc[t] = "after_rd" /\ pc'[t] = "idle"
                /\ \/ rd[t].kind = "return"
                   \/ rd[t].type = "AlreadyRegisteredError"
    /\ \A t \in Threads :
        (rd'[t] # rd[t] /\ rd'[t].kind = "raise" /\ rd'[t].type # "AlreadyRegisteredError") =>
            /\ pc'[t] = "idle"
            /\ result'[t] = rd'[t]
            /\ is_registered' = is_registered

C3_FlagOnlyOnSuccess == [][C3_FlagStep]_vars

\* a call ended with the QuotaExceededError of register_did, the flag still false
C3_Witness ==
    \E t \in Threads :
        /\ pc[t] = "idle"
        /\ rd[t] = Raised("QuotaExceededError", "none")
        /\ result[t] = rd[t]
        /\ ~is_registered[ProcOf(t)]

\* C4: a call whose register_did got ALREADY_REGISTERED from the Gateway marks
\* the DID registered and returns False; a call returns True only when its
\* register_did newly registered the DID.
C4_AlreadyReturnsFalse ==
    \A t \in Threads :
        pc[t] = "idle" =>
            /\ rd[t] = Returned("TxReceipt", "ALREADY_REGISTERED") =>
                   result[t] = False /\ is_registered[ProcOf(t)]
            /\ result[t] = True => rd[t] = Returned("TxReceipt", "ok")

\* C5: a call never waits for the lock longer than LOCK_TIMEOUT, a thread at
\* the acquire can always move on, and a call whose lock could not be created
\* or acquired has logged a warning and goes on without the lock (it does not
\* end with the error of the lock creation).
C5_LockNeverBlocks ==
    \A t \in Threads :
        /\ waited[t] <= LOCK_TIMEOUT
        /\ pc[t] = "acquire" =>
               ENABLED (LockAcquire(t) \/ LockWait(t) \/ LockTimeout(t))
        /\ (PastAcquire(t) /\ ~acquired[t]) => warned[t]
        /\ result[t] # Raised("OSError", "none")

\* C6: a thread that is not inside ensure_registered does not hold the
\* registration lock, however its last call ended.
C6_LockReleased == \A t \in Threads : pc[t] = "idle" => t \notin lockHolders

\* a call that had acquired the lock ended with an exception
C6_Witness ==
    \E t \in Threads :
        /\ pc[t] = "idle"
        /\ acquired[t]
        /\ result[t].kind = "raise"
        /\ t \notin lockHolders

\* C7: a register_did call has sent at most max_retries+1 requests, and after
\* the request number max_retries+1 it is over.
C7_AttemptsBounded ==
    /\ attempts[RDCaller] <= max_retries[RDCaller] + 1
    /\ pc[RDCaller] = "rd_call" => attempts[RDCaller] <= max_retries[RDCaller]

\* a call with retries used all its max_retries+1 requests and raised
C7_Witness ==
    /\ pc[RDCaller] = "idle"
    /\ max_retries[RDCaller] >= 1
    /\ attempts[RDCaller] = max_retries[RDCaller] + 1
    /\ rd[RDCaller].kind = "raise"

\* C8: a finished register_did call whose every request failed with gRPC
\* UNAVAILABLE made exactly max_retries+1 requests and raised
\* GatewayConnectionError.
C8_UnavailableExhausts ==
    ( /\ pc[RDCaller] = "idle"
      /\ attempts[RDCaller] >= 1
      /\ onlyUnavail[RDCaller] )
    => /\ attempts[RDCaller] = max_retries[RDCaller] + 1
       /\ rd[RDCaller] = Raised("GatewayConnectionError", "none")

\* a call with retries ended after UNAVAILABLE answers only
C8_Witness ==
    /\ pc[RDCaller] = "idle"
    /\ max_retries[RDCaller] >= 1
    /\ attempts[RDCaller] >= 2
    /\ onlyUnavail[RDCaller]
    /\ rd[RDCaller] = Raised("GatewayConnectionError", "none")

\* C9: when a request is answered with gRPC DEADLINE_EXCEEDED the call is over
\* at once and has raised GatewayTimeoutError, whatever retries remain.
C9_DeadlineIsFinal ==
    (lastResp[RDCaller].kind = "grpc" /\ lastResp[RDCaller].code = "DEADLINE_EXCEEDED")
    => /\ pc[RDCaller] = "idle"
       /\ rd[RDCaller] = Raised("GatewayTimeoutError", "none")

\* DEADLINE_EXCEEDED ended a call that had retries left
C9_Witness ==
    /\ lastResp[RDCaller].kind = "grpc"
    /\ lastResp[RDCaller].code = "DEADLINE_EXCEEDED"
    /\ attempts[RDCaller] <= max_retries[RDCaller]
    /\ rd[RDCaller] = Raised("GatewayTimeoutError", "none")

\* C10: when a request is answered by a receipt with success=false and the
\* code INVALID_DID, INVALID_DOC_CID, UNAUTHORIZED or INVALID_PAYLOAD, the call
\* is over after this one request and has raised GatewayResponseError carrying
\* that code.
C10_NonRetryableCodes ==
    ( /\ lastResp[RDCaller].kind = "receipt"
      /\ ~lastResp[RDCaller].success
      /\ lastResp[RDCaller].code \in NonRetryableCodes )
    => /\ pc[RDCaller] = "idle"
       /\ attempts[RDCaller] = 1
       /\ rd[RDCaller] = Raised("GatewayResponseError", lastResp[RDCaller].code)

\* the codes client.py:730-756 names; every other code belongs to the else branch
NamedCodes == {"ALREADY_REGISTERED", "DID_QUOTA_EXCEEDED"} \cup NonRetryableCodes

FailedReceipt(resp) == resp.kind = "receipt" /\ ~resp.success

\* C11: a request answered by a receipt with success=false and a code outside
\* the six named ones (PROCESSING_ERROR, ...) is retried while attempts remain:
\* the call goes on when fewer than max_retries+1 requests were sent, and ends
\* only with request number max_retries+1.
C11_OtherCodesRetried ==
    ( /\ FailedReceipt(lastResp[RDCaller])
      /\ lastResp[RDCaller].code \notin NamedCodes )
    => IF attempts[RDCaller] <= max_retries[RDCaller]
         THEN pc[RDCaller] = "rd_call"
         ELSE pc[RDCaller] = "idle" /\ rd[RDCaller].kind = "raise"

\* C12: a request answered by a receipt with the code DID_QUOTA_EXCEEDED ends
\* the call at once with QuotaExceededError, not with another exception type.
C12_QuotaEscapes ==
    ( /\ FailedReceipt(lastResp[RDCaller])
      /\ lastResp[RDCaller].code = "DID_QUOTA_EXCEEDED" )
    => /\ pc[RDCaller] = "idle"
       /\ rd[RDCaller] = Raised("QuotaExceededError", "none")

\* the quota receipt ended a call that had retries left, its text holding a
\* retryable keyword
C12_Witness ==
    /\ FailedReceipt(lastResp[RDCaller])
    /\ lastResp[RDCaller].code = "DID_QUOTA_EXCEEDED"
    /\ lastResp[RDCaller].kw
    /\ attempts[RDCaller] <= max_retries[RDCaller]
    /\ rd[RDCaller] = Raised("QuotaExceededError", "none")

SleepInRange(k) ==
    /\ sleeps[k] >= backoff_base * 2 ^ (k - 1)
    /\ 10 * sleeps[k] <= 11 * (backoff_base * 2 ^ (k - 1))

\* C14 as stated: every sleep of the call lies between backoff_base*2^(k-1)
\* and 1.1 times that, and each sleep is longer than the one before.
C14_StrictlyIncreasing ==
    /\ \A k \in 1..Len(sleeps) : SleepInRange(k)
    /\ \A k \in 1..(Len(sleeps) - 1) : sleeps[k] < sleeps[k + 1]

\* C14, amended: every sleep of the call lies between backoff_base*2^(k-1) and
\* 1.1 times that; no sleep is shorter than the one before, and each is longer
\* than the one before when backoff_base > 0.
C14_Backoff ==
    /\ \A k \in 1..Len(sleeps) : SleepInRange(k)
    /\ \A k \in 1..(Len(sleeps) - 1) :
        /\ sleeps[k] <= sleeps[k + 1]
        /\ backoff_base > 0 => sleeps[k] < sleeps[k + 1]

\* a call slept twice, the first time with the full jitter, the second with none
C14_Witness ==
    /\ Len(sleeps) >= 2
    /\ backoff_base > 0
    /\ 10 * sleeps[1] = 11 * backoff_base
    /\ sleeps[2] = 2 * backoff_base

\* the steps of the send_intent call that took effect
Done == {si_trace[i] : i \in 1..Len(si_trace)}
QuotaExceeded == Raised("QuotaExceededError", "none")

\* C15: when the ensure_registered of a send_intent call ended with
\* QuotaExceededError, the call is over, has raised QuotaExceededError, and has
\* neither pinned the payload nor sent a transaction.
C15_QuotaStopsSendIntent ==
    si_reg = QuotaExceeded
    => /\ si_pc = "idle"
       /\ si_result = Raised("QuotaExceededError", "register")
       /\ "pin" \notin Done
       /\ "send" \notin Done

\* a call with a valid payload ended on the quota error of the registration
C15_Witness ==
    /\ si_reg = QuotaExceeded
    /\ si_in.valid
    /\ si_result = Raised("QuotaExceededError", "register")
    /\ Done = {"validate"}

\* C16: when the ensure_registered of a send_intent call ended with an error
\* other than QuotaExceededError, the call logged it and went on: it does not
\* end with that error, and when it returns it has pinned the payload and sent
\* the transaction.
C16_OtherErrorsSwallowed ==
    (si_reg.kind = "raise" /\ si_reg # QuotaExceeded)
    => /\ si_warned
       /\ si_result.code # "register"
       /\ si_result.kind = "return" => {"pin", "send"} \subseteq Done

\* a call whose registration failed with GatewayConnectionError returned a receipt
C16_Witness ==
    /\ si_reg = Raised("GatewayConnectionError", "none")
    /\ si_warned
    /\ si_result = Returned("TxReceipt", "receipt")
    /\ {"pin", "send", "wait"} \subseteq Done

\* C17: the steps of a send_intent call take effect in the order validate,
\* registration, (registry check,) pin, CID, hash, build, sign, send, await;
\* a call that ended with the error of a step shows the effect of no step from
\* that one on: a failed validation pinned nothing, a failed signature sent
\* nothing.
C17_StepsInOrder ==
    /\ \A i, j \in 1..Len(si_trace) :
        i < j => StepIndex(si_trace[i]) < StepIndex(si_trace[j])
    /\ (si_result.kind = "raise" /\ si_result.code # "configuration") =>
        \A st \in Done : StepIndex(st) < StepIndex(si_result.code)
    /\ si_result.code = "validate" => "pin" \notin Done
    /\ si_result.code = "sign" => "send" \notin Done

\* a call pinned and built, then failed to sign
C17_Witness ==
    /\ si_result = Raised("TransactionError", "sign")
    /\ {"validate", "pin", "cid", "hash", "build"} \subseteq Done
    /\ "send" \notin Done

\* C18: a send_intent call without force on a client whose DIDRegistry resolves
\* the DID as inactive sends no transaction, and once past the validation and
\* the registration it ends with InactiveDIDError.
C18_InactiveDidStops ==
    (si_in.registry = "inactive" /\ ~si_in.force)
    => /\ "send" \notin Done
       /\ si_pc \in {"idle", "validate", "register", "resolve"}
       /\ (si_pc = "idle" /\ si_result.kind # "none") =>
            /\ si_result.kind = "raise"
            /\ si_result.code \notin {"configuration", "validate", "register"} =>
                   si_result = Raised("InactiveDIDError", "resolve")

\* a call with a valid payload ended on the inactive DID
C18_Witness ==
    /\ si_in.registry = "inactive"
    /\ ~si_in.force
    /\ "validate" \in Done
    /\ si_pc = "idle"
    /\ si_result = Raised("InactiveDIDError", "resolve")

\* seconds between the last emission of the call's (level, message) and the call
Elapsed == log_call.at - log_call.prev

\* C19: the first rate_limited_log call with a (level, message) emits the
\* message, and a call made less than `interval` seconds after the emission of
\* the same (level, message) emits nothing.
C19_SuppressedWithinInterval ==
    log_call.made =>
        /\ log_call.prev = NoTime => log_call.emitted
        /\ (log_call.prev # NoTime /\ Elapsed < log_call.interval)
               => ~log_call.emitted

\* C20: a rate_limited_log call made more than `interval` seconds after the
\* last emission of its (level, message) emits the message again.
C20_EmitsAfterInterval ==
    (log_call.made /\ log_call.prev # NoTime /\ Elapsed > log_call.interval)
        => log_call.emitted

\* the threads that called with a key, and those of them that emitted
Callers(k) == {t \in Threads : lt_call[t] # NoThreadCall /\ ThreadKey(t) = k}
Emitters(k) == {t \in Callers(k) : lt_emitted[t]}

\* C21: of the threads that call rate_limited_log at the same time with one
\* key that is not in the map, at most one emits the message, and once a
\* caller has finished exactly one has emitted it.
C21_OneEmitterPerKey ==
    \A k \in Keys :
        /\ Cardinality(Emitters(k)) <= 1
        /\ (\E t \in Callers(k) : lt_pc[t] = "done")
               => Cardinality(Emitters(k)) = 1

\* two threads finished a call with the same level and message, one emitted
C21_Witness ==
    \E t, u \in Threads :
        /\ t # u
        /\ lt_pc[t] = "done" /\ lt_pc[u] = "done"
        /\ lt_call[t].level = lt_call[u].level
        /\ lt_call[t].message = lt_call[u].message
        /\ lt_emitted[t] /\ ~lt_emitted[u]

\* C22: after every rate_limited_log call, emitted or suppressed, the map
\* holds no entry older than one hour (of the TTLCache: no unexpired entry).
C22_NoEntryOlderThanOneHour ==
    log_call.made =>
        IF TTLCACHE_AVAILABLE
          THEN LET live == Unexpired(error_log_cache, log_call.at) IN
               \A i \in 1..Len(live) : log_call.at - (live[i].expires - TTL) <= 3600
          ELSE \A k \in Keys :
                  error_log_timestamps[k] # NoTime
                      => log_call.at - error_log_timestamps[k] <= 3600

\* the pin_to_ipfs call is over
PinEnded == pin_pc = "idle" /\ pin_result # NoOutcome
ServerErrors == {a \in PinAnswers : a # ConnError /\ a.status >= 500}
ClientErrors == {a \in PinAnswers : a.status >= 400 /\ a.status < 500}

\* C23 as stated: when the pinner answered every POST of a finished call with a
\* 5xx, the call raised PinningError and the pinner received exactly 3 POSTs.
C23_ThreePostsOnWire ==
    (PinEnded /\ pin_seen # {} /\ pin_seen \subseteq ServerErrors)
        => /\ pin_result.type = "PinningError"
           /\ pin_wire = 3

\* C24: a 4xx ends the call: once the pinner has answered a 4xx, pin_to_ipfs
\* is handling it or has raised PinningError on it, and a call whose first
\* answer was a 4xx made exactly one POST.
C24_ClientErrorNotRetried ==
    (pin_seen \cap ClientErrors # {})
        => /\ pin_resp \in ClientErrors
           /\ pin_pc \in {"handle", "idle"}
           /\ pin_pc = "idle" => pin_result.type = "PinningError"
           /\ pin_seen \subseteq ClientErrors => (pin_posts = 1 /\ pin_wire = 1)

\* a call ended after one POST answered 404
C24_Witness ==
    /\ PinEnded
    /\ pin_seen = {[status |-> 404, body |-> "none"]}
    /\ pin_result = Raised("PinningError", "HTTPError")
    /\ pin_posts = 1

\* C25: once a session.post of the call has raised a connection error,
\* pin_to_ipfs is handling it or has raised PinningError on it: it calls
\* session.post no more.
C25_TransportErrorNotRetried ==
    pin_raised
        => /\ pin_resp = ConnError
           /\ pin_pc \in {"handle", "idle"}
           /\ pin_pc = "idle" => pin_result = Raised("PinningError", "ConnectionError")

\* a call ended on a connection error of its first session.post
C25_Witness ==
    /\ PinEnded
    /\ pin_raised
    /\ pin_posts = 1
    /\ pin_result = Raised("PinningError", "ConnectionError")

\* C26: without an override, the first read of min_stake_wei calls the
\* contract, and a read made less than 15 minutes after the cache was filled
\* calls nothing and returns the cached value: two reads within 15 minutes are
\* one contract call.
C26_SecondReadFromCache ==
    (stake_read.made /\ min_stake_override = NoValue)
        => /\ stake_read.first => stake_read.called
           /\ (~stake_read.first /\ stake_read.age < 900)
                  => (~stake_read.called /\ stake_read.value = min_stake_wei)

\* the second read, ten minutes after the first, with the contract's value changed
C26_Witness ==
    /\ stake_read.made
    /\ min_stake_override = NoValue
    /\ ~stake_read.first
    /\ stake_read.age = 600
    /\ ~stake_read.called
    /\ stake_calls = 1
    /\ stake_chain # min_stake_wei

\* C27: with an override given at construction no read calls the contract,
\* and every read returns the override, whatever the age of the timestamp.
C27_OverrideNeverRefreshed ==
    (stake_built /\ min_stake_override # NoValue)
        => /\ stake_calls = 0
           /\ min_stake_wei = min_stake_override
           /\ stake_read.made =>
                (~stake_read.called /\ stake_read.value = min_stake_override)

\* a read of an overridden value half an hour after construction
C27_Witness ==
    /\ stake_read.made
    /\ min_stake_override = 555
    /\ stake_read.age > 900
    /\ stake_read.value = 555
    /\ stake_calls = 0

\* the users that have the store file open
KsAccessing == {a \in KsUsers : ks_pc[a] \in {"creating", "reading", "writing"}}

\* C28: whoever has the store file open holds the lock on <path>.lock, so no
\* two users have it open at once.
C28_FileAccessUnderLock ==
    /\ \A a \in KsAccessing : ks_lock = a
    /\ Cardinality(KsAccessing) <= 1

\* C29: the identity that get_or_create_did returns from a store that is not
\* empty has the latest created_at, and no entry behind it in the store's
\* order has the same created_at.
C29_LatestLastAmongEqual ==
    gd_result.kind = "identity" =>
        LET r == gd_result.index IN
        /\ \A j \in 1..Len(gd_identities) :
               ~StrLess(SortKey(gd_identities[r]), SortKey(gd_identities[j]))
        /\ \A j \in (r + 1)..Len(gd_identities) :
               SortKey(gd_identities[j]) # SortKey(gd_identities[r])

\* C30: a receipt that TxReceipt.validate accepted has error_code
\* UNKNOWN_UNSPECIFIED if its success is true, and a validated receipt with
\* success = true and another error code was rejected with ValueError.
C30_SuccessHasNoErrorCode ==
    /\ tx_valid.kind = "return" =>
          (tx_receipt.success => tx_receipt.error_code = "UNKNOWN_UNSPECIFIED")
    /\ (tx_valid # NoOutcome /\ tx_receipt.success
            /\ tx_receipt.error_code # "UNKNOWN_UNSPECIFIED")
          => (tx_valid.kind = "raise" /\ tx_valid.type = "ValueError")

\* a receipt with success = true and ALREADY_REGISTERED was rejected
C30_Witness ==
    /\ tx_receipt.success
    /\ tx_receipt.error_code = "ALREADY_REGISTERED"
    /\ tx_valid.kind = "raise"

\* C31: in every tier, verify_jwt_token returns null for a token whose header
\* alg lowercases to "none" or is empty, without a jwt.decode call.
C31_UnsafeAlgRejected ==
    (jwt_in.token # "" /\ jwt_in.header_ok
        /\ jwt_in.alg \in {"none", "None", "NONE", ""})
        => jwt_out = [result |-> "null", decodes |-> 0]

\* a development-tier call with alg "None" among the caller's allowed algorithms
C31_Witness ==
    /\ jwt_in.token # "" /\ jwt_in.header_ok
    /\ jwt_in.alg = "None"
    /\ jwt_in.env_tier = "development"
    /\ jwt_in.custom_algorithms
    /\ jwt_out.result = "null"

\* C32: concurrent get_gateway_client calls with one gateway_url construct
\* exactly one GatewayClient, and every call for the url returns that instance.
C32_OneClientPerUrl ==
    /\ \A u \in GatewayUrls : gc_created[u] <= 1
    /\ \A t \in Threads :
        gc_pc[t] = "done" =>
            /\ gc_created[gc_arg[t].url] = 1
            /\ gc_ret[t].url = gc_arg[t].url
            /\ gc_ret[t].serial = 1
    /\ \A t1, t2 \in Threads :
        (gc_pc[t1] = "done" /\ gc_pc[t2] = "done" /\ gc_arg[t1].url = gc_arg[t2].url)
            => gc_ret[t1] = gc_ret[t2]

\* two threads have returned from calls for one url with the same client
C32_Witness ==
    \E t1, t2 \in Threads :
        /\ t1 # t2
        /\ gc_pc[t1] = "done" /\ gc_pc[t2] = "done"
        /\ gc_arg[t1].url = gc_arg[t2].url
        /\ gc_ret[t1] = gc_ret[t2]
        /\ gc_ret[t1] # NoClient

\* C40: the client returned by get_gateway_client(gateway_url, api_key)
\* authenticates with the api_key passed in that call.
C40_ClientUsesCallApiKey ==
    \A t \in Threads :
        gc_pc[t] = "done" => gc_ret[t].api_key = gc_arg[t].api_key

\* C33: within one process every call of get_encryption_key returns the same
\* key, concurrent first calls included, and the cache, once set, never holds
\* another value.
C33_OneKeyPerProcess ==
    /\ Cardinality(ek_returned) <= 1
    /\ Cardinality(ek_cached) <= 1

\* C34: INTENT_MASTER_KEY is used only when CI = "true"; when the OS keyring
\* holds no key and CI is not "true", no key is generated or returned.
C34_EnvKeyOnlyInCI ==
    /\ \A k \in ek_returned : k.src = "env" => ek_env.ci
    /\ ~ek_env.ci =>
        /\ ek_generated = 0
        /\ \A k \in ek_returned : k.src = "keyring"

\* C35: at most one thread is between a successful acquire of the DID
\* registration lock and the matching release, threads of one process and
\* processes alike.
C35_AtMostOneLockHolder == Cardinality(lockHolders) <= 1

\* C36: concurrent add_identity calls for different DIDs on one store path
\* leave every added identity in the store: no add is lost.
C36_NoAddLost == ids_added \subseteq ids_store

\* C37: concurrent get_or_create_did(auto=true) calls on an empty key store
\* create and persist exactly one identity, and all return the same DID.
C37_OneIdentityCreated ==
    ~ids_direct =>
        /\ ids_created <= 1
        /\ Cardinality(ids_returned) <= 1
        /\ Cardinality(ids_store) <= 1

C39_LockOutlivesRegisterDid ==
    rl_pc # "idle" => rl_elapsed < REDIS_LOCK_TIMEOUT

\* every attempt has taken the whole timeout and every retry was used
C39_Witness ==
    /\ rl_pc = "done"
    /\ rl_retry = DEFAULT_MAX_RETRIES + 1
    /\ rl_elapsed >= (DEFAULT_MAX_RETRIES + 1) * DEFAULT_TIMEOUT
====
